---- MODULE Spec2Model ----
(***************************************************************************)
(* Model of package flagtag (src/config.go, lines 159-393): Configure      *)
(* walks the fields of a struct, parses each field's 'flag' tag and        *)
(* registers a command line flag for it in the registry of package flag.   *)
(*                                                                         *)
(* Text is modelled as a sequence of one-character strings, so that the    *)
(* splitting, parsing and formatting of the code operate on characters.    *)
(***************************************************************************)
EXTENDS Integers, Sequences, FiniteSets, TLC

(***************************************************************************)
(* Bounds of the model.                                                    *)
(***************************************************************************)
\* Longest raw tag text enumerated for the tag parser.
MaxTagLen == 5
\* Longest default literal enumerated for the primitive kinds.
MaxLit == 3
\* Largest number of fields (of any depth) in an enumerated struct.
MaxNodes == 4
\* Width of int and uint (reflect.Type.Bits() of the platform), scaled down
\* so that literals of MaxLit characters fall on both sides of the range.
IntBits == 4
\* Width of int64 and uint64 (the literal 64 of the code), scaled likewise.
Int64Bits == 5

(***************************************************************************)
(* Text helpers.                                                           *)
(***************************************************************************)
SeqsUpTo(S, n) == UNION {[1..k -> S] : k \in 0..n}

\* Index of the first occurrence of character c in s, 0 if there is none.
IndexOf(s, c) ==
    IF \E i \in 1..Len(s) : s[i] = c
    THEN CHOOSE i \in 1..Len(s) : s[i] = c /\ \A j \in 1..(i - 1) : s[j] # c
    ELSE 0

Count(s, c) == Cardinality({i \in 1..Len(s) : s[i] = c})

Drop(s, k) == SubSeq(s, k + 1, Len(s))

Take(s, k) == SubSeq(s, 1, k)

RECURSIVE Pow(_, _)
Pow(b, k) == IF k = 0 THEN 1 ELSE b * Pow(b, k - 1)

RECURSIVE Repeat(_, _)
Repeat(c, k) == IF k <= 0 THEN <<>> ELSE <<c>> \o Repeat(c, k - 1)

IsDigit(c) == c \in {"0", "1", "2", "3", "4", "5", "6", "7", "8", "9"}

Lower(c) ==
    CASE c = "A" -> "a" [] c = "B" -> "b" [] c = "C" -> "c" [] c = "D" -> "d"
      [] c = "E" -> "e" [] c = "F" -> "f" [] c = "X" -> "x" [] c = "O" -> "o"
      [] OTHER -> c

\* Value of a digit character; 35 stands for a letter beyond f (a digit only
\* in bases above 16), 36 for "no digit in any base".
DigitVal(c) ==
    CASE c = "0" -> 0 [] c = "1" -> 1 [] c = "2" -> 2 [] c = "3" -> 3
      [] c = "4" -> 4 [] c = "5" -> 5 [] c = "6" -> 6 [] c = "7" -> 7
      [] c = "8" -> 8 [] c = "9" -> 9
      [] Lower(c) = "a" -> 10 [] Lower(c) = "b" -> 11 [] Lower(c) = "c" -> 12
      [] Lower(c) = "d" -> 13 [] Lower(c) = "e" -> 14 [] Lower(c) = "f" -> 15
      [] c \in {"h", "m", "o", "s", "t", "x", "T", "H", "M", "S"} -> 35
      [] OTHER -> 36

DigitChar(d) == <<"0", "1", "2", "3", "4", "5", "6", "7", "8", "9">>[d + 1]

(***************************************************************************)
(* strings.SplitN and parseTag.                                            *)
(***************************************************************************)
RECURSIVE SplitN(_, _, _)
SplitN(s, sep, n) ==
    IF n = 0 THEN <<>>
    ELSE LET i == IndexOf(s, sep)
         IN  IF n = 1 \/ i = 0
             THEN <<s>>
             ELSE <<Take(s, i - 1)>> \o SplitN(Drop(s, i), sep, n - 1)

\* The mutated tag parser splits on every comma.
parseTagSplitAll(value) ==
    LET parts == SplitN(value, ",", -1)
        padded == IF Len(parts) >= 3 THEN parts
                  ELSE parts \o [i \in 1..(3 - Len(parts)) |-> <<>>]
    IN  [Name |-> padded[1], DefaultValue |-> padded[2], Description |-> padded[3]]

parseTag(value) ==
    LET parts == SplitN(value, ",", 3)
        padded == parts \o [i \in 1..(3 - Len(parts)) |-> <<>>]
    IN  [Name |-> padded[1], DefaultValue |-> padded[2], Description |-> padded[3]]

(***************************************************************************)
(* Values held by variables: one shape for every kind.                     *)
(*   string        s                                                       *)
(*   bool          n in {0, 1}                                             *)
(*   integers      n                                                       *)
(*   float64       neg, n (decimal mantissa), e (decimal exponent)         *)
(*   duration      neg, n (whole seconds), e (nanoseconds below a second)  *)
(***************************************************************************)
Val(n, e, s, neg) == [n |-> n, e |-> e, s |-> s, neg |-> neg]

IntVal(n) == Val(n, 0, <<>>, FALSE)

StrVal(s) == Val(0, 0, s, FALSE)

ZeroVal == Val(0, 0, <<>>, FALSE)

Parsed(v) == [err |-> "", v |-> v]

Failed(e) == [err |-> e, v |-> ZeroVal]

ErrSyntax == "invalid syntax"

ErrRange == "value out of range"

(***************************************************************************)
(* strconv.ParseBool.                                                      *)
(***************************************************************************)
ParseBool(s) ==
    IF s \in {<<"1">>, <<"t">>, <<"T">>, <<"T", "R", "U", "E">>,
              <<"t", "r", "u", "e">>, <<"T", "r", "u", "e">>}
    THEN Parsed(IntVal(1))
    ELSE IF s \in {<<"0">>, <<"f">>, <<"F">>, <<"F", "A", "L", "S", "E">>,
                   <<"f", "a", "l", "s", "e">>, <<"F", "a", "l", "s", "e">>}
    THEN Parsed(IntVal(0))
    ELSE Failed(ErrSyntax)

(***************************************************************************)
(* strconv.ParseUint and strconv.ParseInt.  With base 0 the base is taken  *)
(* from the prefix (0x, 0o, 0b, 0); the value must fit bitSize bits.       *)
(* The underscore separator is not part of any enumerated literal.         *)
(***************************************************************************)
\* A variant that wraps around at the width instead of failing.
RECURSIVE ScanDigitsWrapping(_, _, _, _)
ScanDigitsWrapping(s, base, maxVal, n) ==
    IF s = <<>> THEN Parsed(IntVal(n))
    ELSE LET d == DigitVal(Head(s))
         IN  IF d >= base THEN Failed(ErrSyntax)
             ELSE ScanDigitsWrapping(Tail(s), base, maxVal, (n * base + d) % (maxVal + 1))

RECURSIVE ScanDigits(_, _, _, _)
ScanDigits(s, base, maxVal, n) ==
    IF s = <<>> THEN Parsed(IntVal(n))
    ELSE LET d == DigitVal(Head(s))
         IN  IF d >= base THEN Failed(ErrSyntax)
             ELSE IF n * base + d > maxVal THEN Failed(ErrRange)
             ELSE ScanDigits(Tail(s), base, maxVal, n * base + d)

\* The base a prefix of a base-0 literal selects and the length of the prefix.
BasePrefix(s) ==
    IF s[1] # "0" THEN [base |-> 10, len |-> 0]
    ELSE IF Len(s) >= 3 /\ Lower(s[2]) = "b" THEN [base |-> 2, len |-> 2]
    ELSE IF Len(s) >= 3 /\ Lower(s[2]) = "o" THEN [base |-> 8, len |-> 2]
    ELSE IF Len(s) >= 3 /\ Lower(s[2]) = "x" THEN [base |-> 16, len |-> 2]
    ELSE [base |-> 8, len |-> 1]

ScanPrefixed(s, prefix, maxVal) == ScanDigits(Drop(s, prefix.len), prefix.base, maxVal, 0)

ParseUint(s, base, bitSize) ==
    IF s = <<>> THEN Failed(ErrSyntax)
    ELSE ScanPrefixed(s, IF base # 0 THEN [base |-> base, len |-> 0] ELSE BasePrefix(s),
                      Pow(2, bitSize) - 1)

\* The signed value of a parsed magnitude, inside the range of the width.
Signed(neg, un, cutoff) ==
    IF un.err = ErrSyntax THEN un
    ELSE IF un.err = ErrRange THEN un
    ELSE IF ~neg /\ un.v.n >= cutoff THEN Failed(ErrRange)
    ELSE IF neg /\ un.v.n > cutoff THEN Failed(ErrRange)
    ELSE Parsed(IntVal(IF neg THEN 0 - un.v.n ELSE un.v.n))

ParseInt(s, base, bitSize) ==
    IF s = <<>> THEN Failed(ErrSyntax)
    ELSE Signed(s[1] = "-",
                ParseUint(IF s[1] \in {"+", "-"} THEN Drop(s, 1) ELSE s, base, bitSize),
                Pow(2, bitSize - 1))

(***************************************************************************)
(* strconv.ParseFloat, decimal form: [+-] digits [. digits], at least one  *)
(* digit.  Exponents, hexadecimal mantissas (which need a p exponent), inf *)
(* and nan need the letters e, p, i, n, which no enumerated literal has.   *)
(* The value is kept as a normalised decimal mantissa and exponent, which  *)
(* is exact for literals of fewer than 15 digits.                          *)
(***************************************************************************)
RECURSIVE NatOf(_, _)
NatOf(s, n) == IF s = <<>> THEN n ELSE NatOf(Tail(s), n * 10 + DigitVal(Head(s)))

RECURSIVE Normalise(_, _)
Normalise(m, e) ==
    IF m = 0 THEN [m |-> 0, e |-> 0]
    ELSE IF m % 10 = 0 THEN Normalise(m \div 10, e + 1)
    ELSE [m |-> m, e |-> e]

ParseFloat(s) ==
    LET neg == s # <<>> /\ s[1] = "-"
        rest == IF s # <<>> /\ s[1] \in {"+", "-"} THEN Drop(s, 1) ELSE s
        dot == IndexOf(rest, ".")
        digits == SelectSeq(rest, IsDigit)
        frac == IF dot = 0 THEN 0 ELSE Len(rest) - dot
        norm == Normalise(NatOf(digits, 0), 0 - frac)
    IN  IF digits = <<>> THEN Failed(ErrSyntax)
        ELSE IF \E i \in 1..Len(rest) : ~IsDigit(rest[i]) /\ rest[i] # "." THEN Failed(ErrSyntax)
        ELSE IF Count(rest, ".") > 1 THEN Failed(ErrSyntax)
        ELSE Parsed(Val(norm.m, norm.e, <<>>, neg))

(***************************************************************************)
(* time.ParseDuration: a sign, then one or more groups of digits with an   *)
(* optional fraction followed by a unit; or "0".  The value                *)
(* is kept as whole seconds and nanoseconds; the units h, m, s and ms are  *)
(* modelled (ns, us need letters no enumerated literal has).  The overflow *)
(* checks of the code need literals of more than 6 digits.                 *)
(***************************************************************************)
ErrDuration == "time: invalid duration"

ErrUnit == "time: unknown unit"

ErrMissingUnit == "time: missing unit in duration"

Giga == 1000 * 1000 * 1000

\* A unit as nanoseconds per unit, split as [sec, ns].
UnitOf(u) ==
    CASE u = <<"h">> -> [ok |-> TRUE, sec |-> 3600, ns |-> 0]
      [] u = <<"m">> -> [ok |-> TRUE, sec |-> 60, ns |-> 0]
      [] u = <<"s">> -> [ok |-> TRUE, sec |-> 1, ns |-> 0]
      [] u = <<"m", "s">> -> [ok |-> TRUE, sec |-> 0, ns |-> 1000000]
      [] OTHER -> [ok |-> FALSE, sec |-> 0, ns |-> 0]

\* Length of the longest prefix of s made of digits (digits = TRUE), or of
\* characters that are neither a digit nor a period (digits = FALSE).
RECURSIVE Span(_, _)
Span(s, digits) ==
    IF s = <<>> THEN 0
    ELSE IF digits /\ ~IsDigit(Head(s)) THEN 0
    ELSE IF ~digits /\ (IsDigit(Head(s)) \/ Head(s) = ".") THEN 0
    ELSE 1 + Span(Tail(s), digits)

\* v units plus the fraction f / 10^k of one unit, as [sec, ns]
\* (the code truncates the fraction to whole nanoseconds).
Scale(v, f, k, unit) ==
    LET perSec == IF unit.ns = 0 THEN 1 ELSE Giga \div unit.ns
        whole == IF unit.ns = 0
                 THEN [sec |-> v * unit.sec, ns |-> 0]
                 ELSE [sec |-> v \div perSec, ns |-> (v % perSec) * unit.ns]
        fsec == IF unit.ns = 0 THEN (f * unit.sec) \div Pow(10, k) ELSE 0
        fns == IF unit.ns = 0
               THEN ((f * unit.sec) % Pow(10, k)) * Pow(10, 9 - k)
               ELSE IF k <= 6 THEN f * Pow(10, 6 - k) ELSE f \div Pow(10, k - 6)
    IN  [sec |-> whole.sec + fsec + ((whole.ns + fns) \div Giga),
         ns |-> (whole.ns + fns) % Giga]

DurationError(err) == [err |-> err, sec |-> 0, ns |-> 0]

HasDot(s) == s # <<>> /\ s[1] = "."

AfterDot(s) == IF HasDot(s) THEN Drop(s, 1) ELSE s

\* One group at a time: the digits before the period (pre of them), the
\* digits after it (post of them, in s2), the unit (ulen characters of s3).
RECURSIVE ScanDuration(_, _, _)
ScanNext(rest, sec, ns, part) ==
    ScanDuration(rest, sec + part.sec + ((ns + part.ns) \div Giga), (ns + part.ns) % Giga)

ScanUnit(whole, frac, post, s3, ulen, sec, ns) ==
    IF ulen = 0 THEN DurationError(ErrMissingUnit)
    ELSE IF ~UnitOf(Take(s3, ulen)).ok THEN DurationError(ErrUnit)
    ELSE ScanNext(Drop(s3, ulen), sec, ns, Scale(whole, frac, post, UnitOf(Take(s3, ulen))))

ScanFraction(whole, pre, s2, post, sec, ns) ==
    IF pre = 0 /\ post = 0 THEN DurationError(ErrDuration)
    ELSE ScanUnit(whole, NatOf(Take(s2, post), 0), post,
                  Drop(s2, post), Span(Drop(s2, post), FALSE), sec, ns)

ScanGroup(s, pre, sec, ns) ==
    ScanFraction(NatOf(Take(s, pre), 0), pre, AfterDot(Drop(s, pre)),
                 IF HasDot(Drop(s, pre)) THEN Span(AfterDot(Drop(s, pre)), TRUE) ELSE 0,
                 sec, ns)

ScanDuration(s, sec, ns) ==
    IF s = <<>> THEN [err |-> "", sec |-> sec, ns |-> ns]
    ELSE IF ~(s[1] = "." \/ IsDigit(s[1])) THEN DurationError(ErrDuration)
    ELSE ScanGroup(s, Span(s, TRUE), sec, ns)

\* The duration of the scanned groups d of the unsigned text rest.
DurationOf(neg, rest, d) ==
    IF rest = <<"0">> THEN Parsed(ZeroVal)
    ELSE IF rest = <<>> THEN Failed(ErrDuration)
    ELSE IF d.err # "" THEN Failed(d.err)
    ELSE Parsed(Val(d.sec, d.ns, <<>>, neg /\ (d.sec # 0 \/ d.ns # 0)))

Unsigned(s) == IF s # <<>> /\ s[1] \in {"+", "-"} THEN Drop(s, 1) ELSE s

ParseDuration(s) ==
    DurationOf(s # <<>> /\ s[1] = "-", Unsigned(s),
               IF Unsigned(s) \in {<<>>, <<"0">>}
               THEN [err |-> "", sec |-> 0, ns |-> 0]
               ELSE ScanDuration(Unsigned(s), 0, 0))

(***************************************************************************)
(* Formatting: the String methods of the values package flag registers.    *)
(***************************************************************************)
RECURSIVE FormatNat(_)
FormatNat(n) ==
    IF n < 10 THEN <<DigitChar(n)>> ELSE FormatNat(n \div 10) \o <<DigitChar(n % 10)>>

\* strconv.Itoa, strconv.FormatInt(v, 10), strconv.FormatUint(v, 10).
FormatInt(n) == IF n < 0 THEN <<"-">> \o FormatNat(0 - n) ELSE FormatNat(n)

\* strconv.FormatBool.
FormatBool(n) ==
    IF n = 1 THEN <<"t", "r", "u", "e">> ELSE <<"f", "a", "l", "s", "e">>

\* strconv.FormatFloat(v, 'g', -1, 64) of the decimal n * 10^e.
FormatFloat(v) ==
    LET digs == FormatNat(v.n)
        nd == Len(digs)
        dp == IF v.n = 0 THEN 0 ELSE nd + v.e
        x == dp - 1
        sign == IF v.neg THEN <<"-">> ELSE <<>>
        ax == IF x < 0 THEN 0 - x ELSE x
        expo == <<"e", IF x < 0 THEN "-" ELSE "+">>
                \o (IF ax < 10 THEN <<"0">> ELSE <<>>) \o FormatNat(ax)
    IN  IF v.n = 0 THEN sign \o <<"0">>
        ELSE IF x < -4 \/ x >= 21
        THEN sign \o <<digs[1]>> \o (IF nd > 1 THEN <<".">> \o Drop(digs, 1) ELSE <<>>) \o expo
        ELSE IF dp <= 0 THEN sign \o <<"0", ".">> \o Repeat("0", 0 - dp) \o digs
        ELSE IF dp >= nd THEN sign \o digs \o Repeat("0", dp - nd)
        ELSE sign \o Take(digs, dp) \o <<".">> \o Drop(digs, dp)

\* The digits of the fraction f / 10^width without trailing zeros, with the
\* leading period; empty when f = 0.
RECURSIVE TrimZeros(_)
TrimZeros(s) ==
    IF s # <<>> /\ s[Len(s)] = "0" THEN TrimZeros(Take(s, Len(s) - 1)) ELSE s

FormatFrac(f, width) ==
    LET raw == FormatNat(f)
        digs == TrimZeros(Repeat("0", width - Len(raw)) \o raw)
    IN  IF digs = <<>> THEN <<>> ELSE <<".">> \o digs

\* time.Duration.String of the duration v.n seconds + v.e nanoseconds.
FormatDuration(v) ==
    LET sign == IF v.neg THEN <<"-">> ELSE <<>>
        h == v.n \div 3600
        m == (v.n % 3600) \div 60
        sec == v.n % 60
    IN  IF v.n = 0 /\ v.e = 0 THEN <<"0", "s">>
        ELSE IF v.n = 0 /\ v.e < 1000
        THEN sign \o FormatNat(v.e) \o <<"n", "s">>
        ELSE IF v.n = 0 /\ v.e < 1000000
        THEN sign \o FormatNat(v.e \div 1000) \o FormatFrac(v.e % 1000, 3) \o <<"µ", "s">>
        ELSE IF v.n = 0
        THEN sign \o FormatNat(v.e \div 1000000) \o FormatFrac(v.e % 1000000, 6) \o <<"m", "s">>
        ELSE sign
             \o (IF h > 0 THEN FormatNat(h) \o <<"h">> ELSE <<>>)
             \o (IF h > 0 \/ m > 0 THEN FormatNat(m) \o <<"m">> ELSE <<>>)
             \o FormatNat(sec) \o FormatFrac(v.e, 9) \o <<"s">>

(***************************************************************************)
(* Struct fields as reflection shows them.  A field has a name, is         *)
(* exported or not, carries a struct tag (a sequence of key/value pairs),  *)
(* and has a type: kind, type name (tname, "" for an unnamed type), for a  *)
(* pointer the kind of its element and its target ("nil" or the object it  *)
(* points to), for a struct its fields.                                    *)
(***************************************************************************)
Tag(key, val) == [key |-> key, val |-> val]

Leaf(exported, tags, kind, tname) ==
    [name |-> "", exported |-> exported, tags |-> tags, kind |-> kind,
     elem |-> "", tname |-> tname, target |-> "", fields |-> <<>>]

PtrTo(exported, tags, elem, tname, target) ==
    [name |-> "", exported |-> exported, tags |-> tags, kind |-> "ptr",
     elem |-> elem, tname |-> tname, target |-> target, fields |-> <<>>]

Struct(exported, tags, fields) ==
    [name |-> "", exported |-> exported, tags |-> tags, kind |-> "struct",
     elem |-> "", tname |-> "", target |-> "", fields |-> fields]

\* A field of type interface{}: elem is the dynamic type of the value it holds
\* ("" for the nil interface), target the object a held pointer points to.
Holding(exported, tags, elem, target) ==
    [name |-> "", exported |-> exported, tags |-> tags, kind |-> "interface",
     elem |-> elem, tname |-> "", target |-> target, fields |-> <<>>]

\* The fields of a struct type are named by their position.
RECURSIVE Named(_)
Named(fields) ==
    [i \in 1..Len(fields) |->
        [fields[i] EXCEPT !.name = "F" \o ToString(i), !.fields = Named(@)]]

\* reflect.StructTag.Get: the value of the first pair with this key, else "".
RECURSIVE TagGet(_, _)
TagGet(tags, key) ==
    IF tags = <<>> THEN <<>>
    ELSE IF Head(tags).key = key THEN Head(tags).val
    ELSE TagGet(Tail(tags), key)

\* The named types whose pointer implements flag.Value (String and Set):
\* dummyInt of the tests, and a struct type with the same two methods.
ImplementsValue(tname) == tname \in {"dummyInt", "dummyStruct"}

\* reflect.Type.Bits of the integer kinds.
Bits(kind) == IF kind \in {"int", "uint"} THEN IntBits ELSE Int64Bits

(***************************************************************************)
(* Errors: the format string of the fmt.Errorf call and its arguments.     *)
(***************************************************************************)
Error(fmt, field, tag, cause) == [fmt |-> fmt, field |-> field, tag |-> tag, cause |-> cause]

NoError == Error("", "", <<>>, "")

IsError(e) == e.fmt # ""

ErrNilConfig == "config cannot be nil"

ErrNilPointer == "config cannot point to nil"

ErrNotAStruct == "config instance is not a struct"

ErrFlagName == "field '%s': invalid flag name: empty string"

ErrNilTarget == "field '%s' (tag '%s'): cannot use nil pointer"

ErrUnexported == "field '%s' (tag '%s') is unexported or unaddressable: cannot use this field"

ErrInvalidDefault == "invalid default value for field '%s' (tag '%s'): %s"

ErrUnsupported == "unsupported data type for field '%s' (tag '%s')"

(***************************************************************************)
(* Package flag: the registry (formal), the variables the flags are bound  *)
(* to (mem, by address), and the values a flag can hold.                   *)
(***************************************************************************)
Addr(obj, path) == [obj |-> obj, path |-> path]

NoMem == [a \in {} |-> ZeroVal]

NoFlags == [name \in {} |-> ZeroVal]

Load(mem, addr) == IF addr \in DOMAIN mem THEN mem[addr] ELSE ZeroVal

Store(mem, addr, v) == (addr :> v) @@ mem

\* A flag.Value: the type that implements it and the variable it points to.
Value(type, addr) == [type |-> type, addr |-> addr]

\* Value.String.
ValueString(value, mem) ==
    LET v == Load(mem, value.addr)
    IN  CASE value.type = "string" -> v.s
          [] value.type = "bool" -> FormatBool(v.n)
          [] value.type = "float64" -> FormatFloat(v)
          [] value.type = "duration" -> FormatDuration(v)
          [] OTHER -> FormatInt(v.n)

\* Value.Set: the value the text stands for, or the error.
ValueSet(value, text) ==
    CASE value.type = "string" -> Parsed(StrVal(text))
      [] value.type = "bool" -> ParseBool(text)
      [] value.type = "float64" -> ParseFloat(text)
      [] value.type = "duration" -> ParseDuration(text)
      [] value.type = "int" -> ParseInt(text, 0, IntBits)
      [] value.type = "int64" -> ParseInt(text, 0, Int64Bits)
      [] value.type = "uint" -> ParseUint(text, 0, IntBits)
      [] value.type = "uint64" -> ParseUint(text, 0, Int64Bits)
      [] OTHER -> ParseInt(text, 10, IntBits)

\* The state a registration works on: registry, variables, error, panic.
State(formal, mem) ==
    [formal |-> formal, mem |-> mem, err |-> NoError, panic |-> "", visited |-> <<>>]

\* Line 241: the loop takes up the field at this path.
Visit(st, path) == [st EXCEPT !.visited = Append(@, path)]

Fail(st, err) == [st EXCEPT !.err = err]

Stopped(st) == IsError(st.err) \/ st.panic # ""

\* A variant that starts the registry anew with each flag.
FlagVarForget(st, value, name, usage) ==
    IF name \in DOMAIN st.formal
    THEN [st EXCEPT !.panic = "flag redefined"]
    ELSE [st EXCEPT !.formal =
             (name :> [Name |-> name, Usage |-> usage, Value |-> value,
                       DefValue |-> ValueString(value, st.mem)])]

\* A variant that binds a name again when it is registered a second time.
FlagVarRebind(st, value, name, usage) ==
    [st EXCEPT !.formal =
        (name :> [Name |-> name, Usage |-> usage, Value |-> value,
                  DefValue |-> ValueString(value, st.mem)]) @@ @]

\* flag.Var: a second flag of the same name panics.
FlagVar(st, value, name, usage) ==
    IF name \in DOMAIN st.formal
    THEN [st EXCEPT !.panic = "flag redefined"]
    ELSE [st EXCEPT !.formal =
             (name :> [Name |-> name, Usage |-> usage, Value |-> value,
                       DefValue |-> ValueString(value, st.mem)]) @@ @]

\* A variant that registers the variable with the value it holds.
FlagPrimVarKeep(st, type, addr, name, default, usage) ==
    FlagVar(st, Value(type, addr), name, usage)

\* flag.StringVar, BoolVar, ...: store the default, then register the variable.
FlagPrimVar(st, type, addr, name, default, usage) ==
    FlagVar([st EXCEPT !.mem = Store(@, addr, default)], Value(type, addr), name, usage)

(***************************************************************************)
(* A reflect.Value of a field: its type, the address of its variable and   *)
(* whether reflection may set it (CanSet: reached through exported fields  *)
(* only).                                                                  *)
(***************************************************************************)
FieldValue(kind, tname, addr, settable, fields) ==
    [kind |-> kind, tname |-> tname, addr |-> addr, settable |-> settable, fields |-> fields]

\* A variant in which a field is settable when the field itself is exported.
FieldOfOwnExport(structValue, i) ==
    LET field == structValue.fields[i]
    IN  FieldValue(field.kind, field.tname,
                   Addr(structValue.addr.obj, Append(structValue.addr.path, i)),
                   field.exported, field.fields)

\* structValue.Field(i)
FieldOf(structValue, i) ==
    LET field == structValue.fields[i]
    IN  FieldValue(field.kind, field.tname,
                   Addr(structValue.addr.obj, Append(structValue.addr.path, i)),
                   structValue.settable /\ field.exported, field.fields)

\* fieldValue.Elem() of a non-nil pointer field.
ElemOf(field, fieldValue) ==
    FieldValue(field.elem, field.tname, Addr(field.target, <<>>),
               fieldValue.settable, field.fields)

(***************************************************************************)
(* registerFlagByValueInterface: a field whose address is a flag.Value is  *)
(* registered with flag.Var; the tag's default value is not used.          *)
(***************************************************************************)
\* A variant that finds no type to implement flag.Value.
registerFlagByValueInterfaceNever(fieldValue, tag, st) == [ok |-> FALSE, st |-> st]

registerFlagByValueInterface(fieldValue, tag, st) ==
    IF ImplementsValue(fieldValue.tname)
    THEN [ok |-> TRUE,
          st |-> FlagVar(st, Value(fieldValue.tname, fieldValue.addr), tag.Name, tag.Description)]
    ELSE [ok |-> FALSE, st |-> st]

(***************************************************************************)
(* registerFlagByPrimitive: time.Duration first, then by kind.             *)
(***************************************************************************)
\* A variant that reads an empty default as the zero value of every kind.
ParseDefaultEmptyAsZero(kind, text) ==
    IF text = <<>> THEN Parsed(IF kind = "string" THEN StrVal(<<>>) ELSE ZeroVal)
    ELSE CASE kind = "string" -> Parsed(StrVal(text))
           [] kind = "bool" -> ParseBool(text)
           [] kind = "float64" -> ParseFloat(text)
           [] kind = "int" -> ParseInt(text, 0, Bits(kind))
           [] kind = "int64" -> ParseInt(text, 0, Int64Bits)
           [] kind = "uint" -> ParseUint(text, 0, Bits(kind))
           [] kind = "uint64" -> ParseUint(text, 0, Int64Bits)
           [] OTHER -> Failed(ErrUnsupported)

\* The default of a primitive kind, parsed as the code parses it.
ParseDefault(kind, text) ==
    CASE kind = "string" -> Parsed(StrVal(text))
      [] kind = "bool" -> ParseBool(text)
      [] kind = "float64" -> ParseFloat(text)
      [] kind = "int" -> ParseInt(text, 0, Bits(kind))
      [] kind = "int64" -> ParseInt(text, 0, Int64Bits)
      [] kind = "uint" -> ParseUint(text, 0, Bits(kind))
      [] kind = "uint64" -> ParseUint(text, 0, Int64Bits)
      [] OTHER -> Failed(ErrUnsupported)

PrimitiveKinds == {"string", "bool", "float64", "int", "int64", "uint", "uint64"}

\* The type of the flag a field is registered as.
FlagType(fieldValue) ==
    IF fieldValue.tname = "time.Duration" THEN "duration" ELSE fieldValue.kind

\* A mutated switch that has no case for a named type.
SupportedUnnamedOnly(fieldValue) ==
    \/ fieldValue.tname = "time.Duration"
    \/ fieldValue.kind \in PrimitiveKinds /\ fieldValue.tname = ""

\* A mutated switch with cases for two more integer kinds.
SupportedAnyInteger(fieldValue) ==
    \/ fieldValue.tname = "time.Duration"
    \/ fieldValue.kind \in PrimitiveKinds \cup {"int32", "uintptr"}

Supported(fieldValue) ==
    fieldValue.tname = "time.Duration" \/ fieldValue.kind \in PrimitiveKinds

\* A mutated parse without the case of time.Duration before the switch.
DefaultOfByKind(fieldValue, tag) == ParseDefault(fieldValue.kind, tag.DefaultValue)

\* Lines 306, 319, 325, 332, 338, 345, 351: the default value as parsed.
DefaultOf(fieldValue, tag) ==
    IF fieldValue.tname = "time.Duration" THEN ParseDuration(tag.DefaultValue)
    ELSE ParseDefault(fieldValue.kind, tag.DefaultValue)

\* The first revision's message does not name the tag.
registerParsedOldMessage(fieldName, fieldValue, tag, st, d) ==
    IF ~Supported(fieldValue)
    THEN Fail(st, Error(ErrUnsupported, fieldName, tag.Name, ""))
    ELSE IF d.err # ""
    THEN Fail(st, Error("invalid default value for field '%s': %s", fieldName, <<>>, d.err))
    ELSE FlagPrimVar(st, FlagType(fieldValue), fieldValue.addr, tag.Name, d.v, tag.Description)

\* The outcome for a default parsed as d: the error, or flag.XxxVar.
registerParsed(fieldName, fieldValue, tag, st, d) ==
    IF ~Supported(fieldValue)
    THEN Fail(st, Error(ErrUnsupported, fieldName, tag.Name, ""))
    ELSE IF d.err # ""
    THEN Fail(st, Error(ErrInvalidDefault, fieldName, tag.Name, d.err))
    ELSE FlagPrimVar(st, FlagType(fieldValue), fieldValue.addr, tag.Name, d.v, tag.Description)

registerFlagByPrimitive(fieldName, fieldValue, tag, st) ==
    registerParsed(fieldName, fieldValue, tag, st, DefaultOf(fieldValue, tag))

(***************************************************************************)
(* configure: the recursive walk over the fields of a struct value.        *)
(***************************************************************************)
\* A mutated tag lookup that takes the first tag whatever its key.
FlagTagOfAnyKey(field) == IF field.tags = <<>> THEN <<>> ELSE field.tags[1].val

\* Line 244: the field's 'flag' tag.
FlagTagOf(field) == TagGet(field.tags, "flag")

\* A mutated walk that never enters a nested struct.
RecurseIntoNever(field) == FALSE

\* A mutated walk that enters a nested struct only when it nests no struct.
RecurseIntoFlat(field) == field.kind = "struct" /\ \A i \in 1..Len(field.fields) : field.fields[i].kind # "struct"

\* A mutated walk that also enters what an untagged pointer points to.
RecurseIntoPointers(field) == field.kind \in {"struct", "ptr"}

\* Line 247: an untagged field is recursed into when its kind is struct.
RecurseInto(field) == field.kind = "struct"

\* A mutated name check that accepts the empty name.
NameInvalidNever(tag) == FALSE

\* Line 256: the tag is invalid when its name is empty.
NameInvalid(tag) == tag.Name = <<>>

RECURSIVE configure(_, _)

\* Lines 272-279: registered as a flag.Value, or else by its kind.
registerEither(field, target, tag, st, byValue) ==
    IF byValue.ok THEN byValue.st ELSE registerFlagByPrimitive(field.name, target, tag, st)

\* Lines 268-279: the field, its pointer unwrapped, is registered.
register(field, target, tag, st) ==
    IF ~target.settable
    THEN Fail(st, Error(ErrUnexported, field.name, tag.Name, ""))
    ELSE registerEither(field, target, tag, st, registerFlagByValueInterface(target, tag, st))

\* A mutated handling of a tagged field that unwraps a pointer unchecked.
configureTaggedNoNilCheck(field, fieldValue, tag, st) ==
    IF NameInvalid(tag)
    THEN Fail(st, Error(ErrFlagName, field.name, <<>>, ""))
    ELSE register(field, IF field.kind = "ptr" THEN ElemOf(field, fieldValue) ELSE fieldValue,
                  tag, st)

\* Lines 254-279: a tagged field.
configureTagged(field, fieldValue, tag, st) ==
    IF NameInvalid(tag)
    THEN Fail(st, Error(ErrFlagName, field.name, <<>>, ""))
    ELSE IF field.kind = "ptr" /\ field.target = "nil"
    THEN Fail(st, Error(ErrNilTarget, field.name, tag.Name, ""))
    ELSE register(field, IF field.kind = "ptr" THEN ElemOf(field, fieldValue) ELSE fieldValue,
                  tag, st)

\* A mutated iteration that enters every struct field, tagged or not.
configureFieldEnterTagged(structValue, i, st) ==
    IF RecurseInto(structValue.fields[i])
    THEN configure(FieldOf(structValue, i), st)
    ELSE IF FlagTagOf(structValue.fields[i]) = <<>>
    THEN st
    ELSE configureTagged(structValue.fields[i], FieldOf(structValue, i),
                         parseTag(FlagTagOf(structValue.fields[i])), st)

\* Lines 241-279: one iteration of the loop.
configureField(structValue, i, st) ==
    IF FlagTagOf(structValue.fields[i]) = <<>>
    THEN IF RecurseInto(structValue.fields[i])
         THEN configure(FieldOf(structValue, i), st)
         ELSE st
    ELSE configureTagged(structValue.fields[i], FieldOf(structValue, i),
                         parseTag(FlagTagOf(structValue.fields[i])), st)

RECURSIVE configureLoop(_, _, _)

\* A mutated loop that goes on after a field has returned an error.
configureNextGoOn(structValue, i, st, next) ==
    IF next.panic # "" THEN next ELSE configureLoop(structValue, i + 1, next)

\* Lines 249-251, 277-279: an error ends the loop.
configureNext(structValue, i, st, next) ==
    IF Stopped(next) THEN next ELSE configureLoop(structValue, i + 1, next)

\* Lines 240-281: the loop over the fields, left at the first error.
configureLoop(structValue, i, st) ==
    IF i > Len(structValue.fields) THEN st
    ELSE configureNext(structValue, i, st,
                       configureField(structValue, i,
                                      Visit(st, Append(structValue.addr.path, i))))

configure(structValue, st) == configureLoop(structValue, 1, st)

(***************************************************************************)
(* getStructValue: the top-level argument must be a non-nil pointer to a   *)
(* struct.  reflect.Value.IsNil panics for a kind that cannot be nil.      *)
(***************************************************************************)
Config(kind, target, elem, fields) ==
    [kind |-> kind, target |-> target, elem |-> elem, fields |-> fields]

NilableKinds == {"ptr", "map", "slice", "chan", "func", "interface"}

NoValue == FieldValue("", "", Addr("", <<>>), FALSE, <<>>)

\* A mutated check that removes every layer of pointer indirection.
getStructValueDerefAll(config) ==
    IF config.kind = "nil"
    THEN [val |-> NoValue, err |-> Error(ErrNilConfig, "", <<>>, ""), panic |-> ""]
    ELSE IF config.kind \notin NilableKinds
    THEN [val |-> NoValue, err |-> NoError, panic |-> "reflect: call of reflect.Value.IsNil"]
    ELSE IF config.target = "nil"
    THEN [val |-> NoValue, err |-> Error(ErrNilPointer, "", <<>>, ""), panic |-> ""]
    ELSE IF config.kind # "ptr" \/ config.elem \notin {"struct", "ptr"}
    THEN [val |-> NoValue, err |-> Error(ErrNotAStruct, "", <<>>, ""), panic |-> ""]
    ELSE [val |-> FieldValue("struct", "", Addr(config.target, <<>>), TRUE, config.fields),
          err |-> NoError, panic |-> ""]

getStructValue(config) ==
    IF config.kind = "nil"
    THEN [val |-> NoValue, err |-> Error(ErrNilConfig, "", <<>>, ""), panic |-> ""]
    ELSE IF config.kind \notin NilableKinds
    THEN [val |-> NoValue, err |-> NoError, panic |-> "reflect: call of reflect.Value.IsNil"]
    ELSE IF config.target = "nil"
    THEN [val |-> NoValue, err |-> Error(ErrNilPointer, "", <<>>, ""), panic |-> ""]
    ELSE IF (IF config.kind = "ptr" THEN config.elem ELSE config.kind) # "struct"
    THEN [val |-> NoValue, err |-> Error(ErrNotAStruct, "", <<>>, ""), panic |-> ""]
    ELSE [val |-> FieldValue("struct", "", Addr(config.target, <<>>), TRUE, config.fields),
          err |-> NoError, panic |-> ""]

\* Lines 225-231: the outcome of Configure(config) on a registry and variables.
ConfigureOutcome(config, formal, mem) ==
    LET sv == getStructValue(config)
    IN  IF sv.panic # "" THEN [State(formal, mem) EXCEPT !.panic = sv.panic]
        ELSE IF IsError(sv.err) THEN Fail(State(formal, mem), sv.err)
        ELSE configure(sv.val, State(formal, mem))

(***************************************************************************)
(* flag.Parse on the command line: each argument -name=value sets the      *)
(* flag's variable; an undefined flag or a value its Set rejects ends the  *)
(* process (flag.CommandLine uses ExitOnError).                            *)
(***************************************************************************)
Arg(name, value) == [name |-> name, value |-> value]

RECURSIVE ParseArgs(_, _)

\* A defined flag: Set has returned set; an error ends the process.
SetFlag(args, ps, name, set) ==
    IF set.err # "" THEN [ps EXCEPT !.exit = TRUE]
    ELSE ParseArgs(Tail(args),
                   [ps EXCEPT !.mem = Store(@, ps.formal[name].Value.addr, set.v),
                              !.actual = @ \cup {name}])

ParseArgs(args, ps) ==
    IF args = <<>> THEN ps
    ELSE IF Head(args).name \notin DOMAIN ps.formal THEN [ps EXCEPT !.exit = TRUE]
    ELSE SetFlag(args, ps, Head(args).name,
                 ValueSet(ps.formal[Head(args).name].Value, Head(args).value))

FlagParse(args, formal, mem, actual) ==
    ParseArgs(args, [formal |-> formal, mem |-> mem, actual |-> actual, exit |-> FALSE])

(***************************************************************************)
(* The state of a program that uses the package.                           *)
(***************************************************************************)
VARIABLES
    config,   \* the value the caller passes to the entry points
    formal,   \* flag.CommandLine: the registered flags by name
    actual,   \* the names of the flags the command line has set
    parsed,   \* flag.Parsed()
    argv,     \* the command line flag.Parse has read
    mem,      \* the variables flags are bound to, by address
    last,     \* the last call: entry point, returned error, panic, state before
    status,   \* "running", "panicked" or "exited"
    calls,    \* number of entry point calls made
    raw,      \* tag parser: the raw tag text
    tag       \* tag parser: the parsed tag

vars == <<config, formal, actual, parsed, argv, mem, last, status, calls, raw, tag>>

Last(op, err, panic, formal0, mem0) ==
    [op |-> op, err |-> err, panic |-> panic, formal |-> formal0, mem |-> mem0]

\* Command lines: no argument, or one flag given one of two texts.
ArgValues == {<<"0">>, <<"x">>}

Argvs(names) == {<<>>} \cup {<<Arg(n, v)>> : n \in names \cup {<<"u">>}, v \in ArgValues}

\* A variant in which the Must entry points return like the others.
ConfiguredReturning(op, must, out) ==
    /\ formal' = out.formal
    /\ mem' = out.mem
    /\ last' = Last(op, out.err, out.panic, formal, mem)
    /\ status' = IF out.panic # "" THEN "panicked" ELSE "running"
    /\ calls' = calls + 1

\* A call that has configured with outcome out and does not parse.
Configured(op, must, out) ==
    /\ formal' = out.formal
    /\ mem' = out.mem
    /\ last' = Last(op, out.err,
                    IF must /\ IsError(out.err) THEN "panic(err)" ELSE out.panic, formal, mem)
    /\ status' = IF out.panic # "" \/ (must /\ IsError(out.err)) THEN "panicked" ELSE "running"
    /\ calls' = calls + 1

\* Lines 225-231.
Configure(limit) ==
    /\ status = "running" /\ calls < limit
    /\ Configured("Configure", FALSE, ConfigureOutcome(config, formal, mem))
    /\ UNCHANGED <<config, actual, parsed, argv, raw, tag>>

\* Lines 184-188.
MustConfigure(limit) ==
    /\ status = "running" /\ calls < limit
    /\ Configured("MustConfigure", TRUE, ConfigureOutcome(config, formal, mem))
    /\ UNCHANGED <<config, actual, parsed, argv, raw, tag>>

\* flag.Parse has read args with result ps.
ParsedArgs(args, ps) ==
    /\ mem' = ps.mem
    /\ actual' = ps.actual
    /\ parsed' = TRUE
    /\ argv' = args
    /\ status' = IF ps.exit THEN "exited" ELSE "running"

\* A variant that calls flag.Parse whatever configuring has returned.
ConfiguredThenParseAlways(op, must, out) ==
    /\ formal' = out.formal
    /\ last' = Last(op, out.err, out.panic, formal, mem)
    /\ calls' = calls + 1
    /\ \E args \in Argvs(DOMAIN out.formal) :
           ParsedArgs(args, FlagParse(args, out.formal, out.mem, actual))

\* Lines 198-202 (must = FALSE) and lines 177-179 (must = TRUE): flag.Parse
\* follows when configuring has returned no error.
ConfiguredThenParse(op, must, out) ==
    IF Stopped(out)
    THEN Configured(op, must, out) /\ UNCHANGED <<actual, parsed, argv>>
    ELSE /\ formal' = out.formal
         /\ last' = Last(op, out.err, out.panic, formal, mem)
         /\ calls' = calls + 1
         /\ \E args \in Argvs(DOMAIN out.formal) :
                ParsedArgs(args, FlagParse(args, out.formal, out.mem, actual))

\* Lines 197-203.
ConfigureAndParse(limit) ==
    /\ status = "running" /\ calls < limit
    /\ ConfiguredThenParse("ConfigureAndParse", FALSE, ConfigureOutcome(config, formal, mem))
    /\ UNCHANGED <<config, raw, tag>>

\* Lines 176-180.
MustConfigureAndParse(limit) ==
    /\ status = "running" /\ calls < limit
    /\ ConfiguredThenParse("MustConfigureAndParse", TRUE, ConfigureOutcome(config, formal, mem))
    /\ UNCHANGED <<config, raw, tag>>

\* The caller's own flag.Parse() after configuring.
Parse ==
    /\ status = "running" /\ ~parsed /\ calls > 0
    /\ \E args \in Argvs(DOMAIN formal) : ParsedArgs(args, FlagParse(args, formal, mem, actual))
    /\ last' = Last("Parse", NoError, "", formal, mem)
    /\ UNCHANGED <<config, formal, calls, raw, tag>>

\* The tag parser applied to the raw tag text.
ParseTag ==
    /\ last.op = "none"
    /\ tag' = parseTag(raw)
    /\ last' = Last("parseTag", NoError, "", formal, mem)
    /\ UNCHANGED <<config, formal, actual, parsed, argv, mem, status, calls, raw>>

(***************************************************************************)
(* The values a caller can pass.                                           *)
(***************************************************************************)
PtrToStruct(fields) == Config("ptr", "cfg", "struct", Named(fields))

\* The 'flag' tags of the enumerated structs.
TagA == <<"a", ",", "1", ",", "d", ",", "e">>

TagB == <<"b", ",", "1">>

TagC == <<"c", ",", "-", "1">>

TagG == <<"g", ",", "H", "i">>

\* Fields that register nothing: no tag, another key only, an empty flag tag.
Untagged == Leaf(FALSE, <<>>, "int", "")

JsonTagged == Leaf(TRUE, <<Tag("json", <<"s", ",", "v">>)>>, "string", "")

EmptyFlagTag == Leaf(TRUE, <<Tag("flag", <<>>)>>, "string", "")

\* Fields that register a flag, and one whose default is invalid.
FieldA == Leaf(TRUE, <<Tag("flag", TagA)>>, "string", "")

FieldB == Leaf(TRUE, <<Tag("json", <<"b">>), Tag("flag", TagB)>>, "int", "")

FieldC == Leaf(TRUE, <<Tag("flag", TagC)>>, "uint", "")

Leaves == {JsonTagged, EmptyFlagTag, FieldA, FieldB, FieldC}

\* The sequences of fields with n fields in all, nested structs included;
\* a nested struct is an exported field without a tag.
RECURSIVE Forests(_)
Forests(n) ==
    IF n = 0 THEN {<<>>}
    ELSE UNION {
           {<<t>> \o rest :
                t \in (IF k = 1 THEN Leaves ELSE {})
                      \cup {Struct(TRUE, <<>>, f) : f \in Forests(k - 1)},
                rest \in Forests(n - k)} : k \in 1..n}

\* What the caller may pass that is no pointer to a struct.
NilConfig == Config("nil", "nil", "", <<>>)

BadConfigs ==
    {NilConfig,
     Config("ptr", "nil", "struct", <<>>),
     Config("ptr", "i", "int", <<>>),
     Config("ptr", "p", "ptr", Named(<<FieldA>>)),
     Config("struct", "", "", Named(<<FieldA>>)),
     Config("int", "", "", <<>>),
     Config("map", "nil", "", <<>>),
     Config("map", "m", "", <<>>)}

\* Structs with fields the enumeration above does not build: a nested struct
\* that is unexported, and a pointer to a struct without a tag.
Unexported(fields) == Struct(FALSE, <<>>, fields)

Exported(fields) == Struct(TRUE, <<>>, fields)

PtrToInner == [PtrTo(TRUE, <<>>, "struct", "", "h1") EXCEPT !.fields = <<FieldB>>]

CuratedConfigs ==
    {PtrToStruct(<<Unexported(<<FieldB>>)>>),
     PtrToStruct(<<FieldA, Unexported(<<FieldB>>)>>),
     PtrToStruct(<<Exported(<<Unexported(<<Exported(<<FieldB>>)>>)>>)>>),
     PtrToStruct(<<Exported(<<Exported(<<Unexported(<<FieldB>>)>>)>>)>>),
     PtrToStruct(<<PtrToInner, FieldA>>),
     PtrToStruct(<<PtrToInner, Exported(<<FieldB>>), FieldA>>),
     PtrToStruct(<<Holding(TRUE, <<>>, "*dummyInt", "h1"), FieldA>>),
     PtrToStruct(<<Unexported(<<JsonTagged, Untagged>>)>>),
     PtrToStruct(<<Untagged>>),
     PtrToStruct(<<Untagged, FieldA>>),
     PtrToStruct(<<Exported(<<Untagged, Exported(<<Untagged>>)>>), JsonTagged>>)}

\* The configs that are also tried on a registry that holds the caller's flag.
SmallConfigs ==
    BadConfigs \cup CuratedConfigs \cup {PtrToStruct(f) : f \in UNION {Forests(n) : n \in 0..2}}

Configs(nodes) ==
    SmallConfigs \cup {PtrToStruct(f) : f \in UNION {Forests(n) : n \in 3..nodes}}

\* A flag the caller has defined with package flag before configuring.
OwnFlag ==
    (<<"a">> :> [Name |-> <<"a">>, Usage |-> <<>>, Value |-> Value("string", Addr("own", <<>>)),
                 DefValue |-> <<>>])

\* The program before its first call, with one of these registries.
InitProgram(registries) ==
    /\ formal \in registries
    /\ actual = {}
    /\ parsed = FALSE
    /\ argv = <<>>
    /\ mem = NoMem
    /\ last = Last("none", NoError, "", formal, NoMem)
    /\ status = "running"
    /\ calls = 0

NoTag == raw = <<>> /\ tag = parseTag(<<>>)

(***************************************************************************)
(* Spec: one call of Configure on the enumerated structs.                  *)
(***************************************************************************)
Init ==
    /\ InitProgram({NoFlags, OwnFlag}) /\ NoTag
    /\ config \in (IF formal = NoFlags THEN Configs(MaxNodes) ELSE SmallConfigs)

Next == Configure(1)

Spec == Init /\ [][Next]_vars

(***************************************************************************)
(* What the claims speak about, stated on the struct itself.               *)
(***************************************************************************)
\* The argument is a non-nil pointer to a struct.
IsStructPointer(c) == c.kind = "ptr" /\ c.target # "nil" /\ c.elem = "struct"

AfterConfigure == last.op = "Configure"

Returned == AfterConfigure /\ last.panic = ""

Succeeded == Returned /\ ~IsError(last.err)

\* The text of the field's tag with key 'flag' (empty when there is none).
FlagText(field) ==
    IF \E j \in 1..Len(field.tags) : field.tags[j].key = "flag"
    THEN field.tags[CHOOSE j \in 1..Len(field.tags) :
                        /\ field.tags[j].key = "flag"
                        /\ \A k \in 1..(j - 1) : field.tags[k].key # "flag"].val
    ELSE <<>>

\* The parts of a tag text: before the first comma, between the first two
\* commas, after the second comma.
TagName(t) == IF IndexOf(t, ",") = 0 THEN t ELSE Take(t, IndexOf(t, ",") - 1)

TagRest(t) == IF IndexOf(t, ",") = 0 THEN <<>> ELSE Drop(t, IndexOf(t, ","))

TagDefault(t) == TagName(TagRest(t))

TagUsage(t) == TagRest(TagRest(t))

\* No field, at any depth, carries a non-empty 'flag' tag.
RECURSIVE NoFlagTags(_)
NoFlagTags(fields) ==
    \A i \in 1..Len(fields) : FlagText(fields[i]) = <<>> /\ NoFlagTags(fields[i].fields)

\* The tagged fields reachable through untagged struct-typed fields, in
\* depth-first declaration order; each with its depth and with whether every
\* struct field on its way, and the field itself, is exported.
RECURSIVE TaggedFields(_, _, _)
TaggedFields(fields, depth, exported) ==
    IF fields = <<>> THEN <<>>
    ELSE LET f == Head(fields)
             here == IF FlagText(f) # <<>>
                     THEN <<[field |-> f, depth |-> depth, exported |-> exported /\ f.exported]>>
                     ELSE IF f.kind = "struct"
                     THEN TaggedFields(f.fields, depth + 1, exported /\ f.exported)
                     ELSE <<>>
         IN  here \o TaggedFields(Tail(fields), depth, exported)

Reachable == TaggedFields(config.fields, 0, TRUE)

\* Configure applied to a struct that has this one field at its top level,
\* on an empty registry.
Alone(tf) ==
    ConfigureOutcome(Config("ptr", "cfg", "struct", <<[tf.field EXCEPT !.exported = tf.exported]>>),
                     NoFlags, NoMem)

NewNames == DOMAIN formal \ DOMAIN last.formal

OldFlagsKept == \A n \in DOMAIN last.formal : n \in DOMAIN formal /\ formal[n] = last.formal[n]

NamesOf(tfs) == {TagName(FlagText(tfs[i].field)) : i \in 1..Len(tfs)}

(***************************************************************************)
(* C1: Configure returns an error and registers nothing when its argument  *)
(* is nil, a nil pointer, or a pointer whose target is not a struct; a     *)
(* pointer to an int and a pointer to a pointer to a struct are rejected   *)
(* as not-a-struct.                                                        *)
(***************************************************************************)
C1_BadArgumentRejected ==
    (AfterConfigure /\ (config.kind = "nil" \/ (config.kind = "ptr" /\ ~IsStructPointer(config))))
    => /\ last.panic = ""
       /\ IsError(last.err)
       /\ formal = last.formal
       /\ mem = last.mem
       /\ config.kind = "nil" => last.err.fmt = ErrNilConfig
       /\ (config.kind = "ptr" /\ config.target = "nil") => last.err.fmt = ErrNilPointer
       /\ (config.kind = "ptr" /\ config.target # "nil") => last.err.fmt = ErrNotAStruct

C1_Witness ==
    AfterConfigure /\ config.kind = "ptr" /\ config.elem = "ptr" /\ config.target # "nil"
    /\ last.err.fmt = ErrNotAStruct

(***************************************************************************)
(* C2: for every argument that is not a non-nil pointer to a struct,       *)
(* a struct or an int passed by value included, Configure returns a        *)
(* non-nil error and does not panic.                                       *)
(***************************************************************************)
C2_NeverPanics ==
    (AfterConfigure /\ ~IsStructPointer(config)) => (last.panic = "" /\ IsError(last.err))

(***************************************************************************)
(* C4: for a non-nil pointer to a struct with no field carrying a 'flag'   *)
(* tag at any depth, Configure returns no error and leaves the registry    *)
(* unchanged.                                                              *)
(***************************************************************************)
C4_UntaggedStructRegistersNothing ==
    (AfterConfigure /\ IsStructPointer(config) /\ NoFlagTags(config.fields))
    => (Succeeded /\ formal = last.formal /\ mem = last.mem)

C4_Witness ==
    /\ AfterConfigure /\ IsStructPointer(config) /\ NoFlagTags(config.fields)
    /\ formal # NoFlags
    /\ \E i \in 1..Len(config.fields) :
         /\ config.fields[i].kind = "struct"
         /\ \E j \in 1..Len(config.fields[i].fields) : config.fields[i].fields[j].tags # <<>>

(***************************************************************************)
(* C5: after a successful Configure the registry has exactly one new       *)
(* option for each tagged field reachable through untagged struct-typed    *)
(* fields and no other new option; each carries the name and the           *)
(* description of its field's tag.                                         *)
(***************************************************************************)
C5_OneOptionPerTaggedField ==
    (Succeeded /\ IsStructPointer(config))
    => /\ NewNames = NamesOf(Reachable)
       /\ Cardinality(NewNames) = Len(Reachable)
       /\ OldFlagsKept
       /\ \A i \in 1..Len(Reachable) :
            LET t == FlagText(Reachable[i].field)
            IN  /\ formal[TagName(t)].Name = TagName(t)
                /\ formal[TagName(t)].Usage = TagUsage(t)

C5_Witness ==
    /\ Succeeded /\ IsStructPointer(config)
    /\ Len(Reachable) >= 2
    /\ \E i \in 1..Len(Reachable) : Reachable[i].depth >= 1
    /\ \E i \in 1..Len(config.fields) : config.fields[i].kind = "ptr"

(***************************************************************************)
(* C6: when a field returns an error the walk stops there: the tagged      *)
(* fields before it in depth-first declaration order are registered and    *)
(* stay registered, no field after it is registered, and the error         *)
(* returned is the error of that first failing field.                      *)
(***************************************************************************)
FirstFailing ==
    IF \E k \in 1..Len(Reachable) : IsError(Alone(Reachable[k]).err)
    THEN CHOOSE k \in 1..Len(Reachable) :
            /\ IsError(Alone(Reachable[k]).err)
            /\ \A j \in 1..(k - 1) : ~IsError(Alone(Reachable[j]).err)
    ELSE 0

C6_WalkStopsAtFirstError ==
    (Returned /\ IsError(last.err) /\ IsStructPointer(config))
    => /\ FirstFailing # 0
       /\ last.err = Alone(Reachable[FirstFailing]).err
       /\ NewNames = NamesOf(Take(Reachable, FirstFailing - 1))
       /\ Cardinality(NewNames) = FirstFailing - 1
       /\ OldFlagsKept

C6_Witness ==
    /\ Returned /\ IsError(last.err) /\ IsStructPointer(config)
    /\ FirstFailing >= 2 /\ FirstFailing < Len(Reachable)
    /\ Reachable[FirstFailing].depth >= 1
    /\ ~IsError(Alone(Reachable[Len(Reachable)]).err)

(***************************************************************************)
(* C10: struct-typed fields without a 'flag' tag are visited at any depth: *)
(* a validly tagged field three untagged struct levels deep is registered  *)
(* exactly as a top-level field would be, and an error inside a nested     *)
(* struct is returned by the outer Configure.                              *)
(***************************************************************************)
\* Configure applied to a struct that has the field itself at its top level.
Top(tf) == ConfigureOutcome(Config("ptr", "cfg", "struct", <<tf.field>>), NoFlags, NoMem)

FirstTopFailing ==
    IF \E k \in 1..Len(Reachable) : IsError(Top(Reachable[k]).err)
    THEN CHOOSE k \in 1..Len(Reachable) :
            /\ IsError(Top(Reachable[k]).err)
            /\ \A j \in 1..(k - 1) : ~IsError(Top(Reachable[j]).err)
    ELSE 0

\* The same option bound to a variable that holds the same value.
SameFlag(f1, m1, f2, m2) ==
    /\ f1.Name = f2.Name /\ f1.Usage = f2.Usage /\ f1.DefValue = f2.DefValue
    /\ f1.Value.type = f2.Value.type
    /\ Load(m1, f1.Value.addr) = Load(m2, f2.Value.addr)

RegisteredAsTopLevel(i) ==
    LET n == TagName(FlagText(Reachable[i].field))
        top == Top(Reachable[i])
    IN  n \in NewNames /\ SameFlag(formal[n], mem, top.formal[n], top.mem)

NestedAsTopLevel ==
    /\ \A i \in 1..Len(Reachable) :
         (FirstTopFailing = 0 \/ i < FirstTopFailing) => RegisteredAsTopLevel(i)
    /\ FirstTopFailing = 0 => ~IsError(last.err)
    /\ FirstTopFailing # 0 => last.err = Top(Reachable[FirstTopFailing]).err

\* The claim as it is worded: whatever the nested structs are.
C10_NestedAsTopLevel ==
    (Returned /\ IsStructPointer(config)) => NestedAsTopLevel

\* Every struct field on the way to a tagged field is exported.
PathsExported ==
    \A i \in 1..Len(Reachable) : Reachable[i].exported = Reachable[i].field.exported

\* C10, amended: the untagged struct fields on the way are exported.
C10_ExportedNestedAsTopLevel ==
    (Returned /\ IsStructPointer(config) /\ PathsExported) => NestedAsTopLevel

C10_Witness ==
    /\ Succeeded /\ IsStructPointer(config) /\ PathsExported
    /\ \E i \in 1..Len(Reachable) :
         /\ Reachable[i].depth = 3
         /\ TagName(FlagText(Reachable[i].field)) \in NewNames

(***************************************************************************)
(* SpecTag: the tag parser on every text over a small alphabet.            *)
(***************************************************************************)
TagChars == {"a", ",", "1", " "}

InitTag ==
    /\ InitProgram({NoFlags}) /\ config = NilConfig
    /\ raw \in SeqsUpTo(TagChars, MaxTagLen)
    /\ tag = parseTag(<<>>)

NextTag == ParseTag

SpecTag == InitTag /\ [][NextTag]_vars

(***************************************************************************)
(* C7: parseTag is total: the name is the text before the first comma, the *)
(* default the text between the first and the second comma, the            *)
(* description everything after the second comma, later commas included;   *)
(* a part that is missing is empty.                                        *)
(***************************************************************************)
C7_ParseTagSplitsOnFirstTwoCommas ==
    last.op = "parseTag"
    => /\ tag.Name = TagName(raw)
       /\ tag.DefaultValue = TagDefault(raw)
       /\ tag.Description = TagUsage(raw)
       /\ Count(tag.Name, ",") = 0 /\ Count(tag.DefaultValue, ",") = 0
       /\ Count(raw, ",") = 0 => (tag.DefaultValue = <<>> /\ tag.Description = <<>>)
       /\ Count(raw, ",") = 1 =>
            (tag.Name \o <<",">> \o tag.DefaultValue = raw /\ tag.Description = <<>>)
       /\ Count(raw, ",") >= 2 =>
            tag.Name \o <<",">> \o tag.DefaultValue \o <<",">> \o tag.Description = raw

C7_Witness ==
    /\ last.op = "parseTag" /\ Count(raw, ",") >= 3
    /\ tag.Name # <<>> /\ tag.DefaultValue # <<>> /\ Count(tag.Description, ",") >= 1

(***************************************************************************)
(* SpecField: one call on a struct of two fields: a field of each type     *)
(* with each default over a small alphabet, or with a tag without a name,  *)
(* followed by a string field with a valid tag.                            *)
(***************************************************************************)
LitChars == {"0", "1", "x", "-", ".", "h"}

DefaultTags(len) == {<<"n", ",">> \o lit \o <<",", "d">> : lit \in SeqsUpTo(LitChars, len)}

EmptyNameTags == {<<",">>, <<",", ",">>, <<",", "1", ",", "d">>, <<",", "x">>}

WithTag(field, t) == [field EXCEPT !.tags = <<Tag("flag", t)>>]

\* Types that registerFlagByPrimitive or flag.Var can register.
DefaultTypes ==
    {Leaf(TRUE, <<>>, k, "") : k \in PrimitiveKinds}
    \cup {Leaf(TRUE, <<>>, "int", "aliasInt"),
          Leaf(TRUE, <<>>, "int", "dummyInt"),
          Leaf(TRUE, <<>>, "int64", "time.Duration"),
          Leaf(FALSE, <<>>, "int", ""),
          PtrTo(TRUE, <<>>, "int", "", "h1")}

\* Types that cannot be registered.
OtherTypes ==
    {Leaf(TRUE, <<>>, "uintptr", ""),
     Leaf(TRUE, <<>>, "interface", ""),
     Leaf(TRUE, <<>>, "slice", ""),
     Struct(TRUE, <<>>, <<FieldB>>),
     PtrTo(TRUE, <<>>, "int", "", "nil")}

Follower == Leaf(TRUE, <<Tag("flag", TagG)>>, "string", "")

FieldConfigs(len) ==
    {PtrToStruct(<<WithTag(f, t), Follower>>) : f \in DefaultTypes, t \in DefaultTags(len)}
    \cup {PtrToStruct(<<WithTag(f, t), Follower>>) :
              f \in DefaultTypes \cup OtherTypes, t \in EmptyNameTags}

InitField == InitProgram({NoFlags}) /\ NoTag /\ config \in FieldConfigs(MaxLit)

SpecField == InitField /\ [][Next]_vars

\* The field under test and the parts of its tag.
First == config.fields[1]

FirstTagged == IsStructPointer(config) /\ config.fields # <<>> /\ FlagText(First) # <<>>

NumericKinds == {"bool", "float64", "int", "int64", "uint", "uint64"}

DefaultUnparsable == ParseDefault(First.kind, TagDefault(FlagText(First))).err # ""

InvalidDefaultReturned ==
    /\ Returned
    /\ last.err.fmt = ErrInvalidDefault
    /\ last.err.field = First.name
    /\ last.err.tag = TagName(FlagText(First))
    /\ formal = last.formal
    /\ mem = last.mem

(***************************************************************************)
(* C8: a field whose non-empty 'flag' tag has an empty name part makes     *)
(* Configure fail with the invalid-flag-name error, whatever the type of   *)
(* the field, and nothing is registered.                                   *)
(***************************************************************************)
C8_EmptyNameRejected ==
    (AfterConfigure /\ FirstTagged /\ TagName(FlagText(First)) = <<>>)
    => /\ Returned
       /\ last.err = Error(ErrFlagName, First.name, <<>>, "")
       /\ formal = last.formal
       /\ mem = last.mem

C8_Witness ==
    /\ AfterConfigure /\ FirstTagged /\ FlagText(First) = <<",", ",">>
    /\ First.kind = "ptr" /\ First.target = "nil"
    /\ last.err.fmt = ErrFlagName

(***************************************************************************)
(* C9: a field of kind bool, float64, int, int64, uint or uint64 whose tag *)
(* default does not parse under the grammar of its kind makes Configure    *)
(* return the invalid-default error naming the field and the option, and   *)
(* neither that field nor any field after it is registered.                *)
(***************************************************************************)
FirstNamed == FirstTagged /\ TagName(FlagText(First)) # <<>>

\* The claim as it is worded: every field of these kinds with a named option.
C9_InvalidDefaultRejected ==
    (AfterConfigure /\ FirstNamed /\ First.kind \in NumericKinds /\ DefaultUnparsable)
    => InvalidDefaultReturned

\* The field is registered by its kind: reflection may set it, and its type
\* is neither time.Duration nor a flag.Value.
ByKind(field) ==
    /\ field.exported
    /\ field.tname # "time.Duration"
    /\ ~ImplementsValue(field.tname)

\* C9, amended: the fields of these kinds that are registered by their kind.
C9_InvalidDefaultOfPlainKindRejected ==
    (AfterConfigure /\ FirstNamed /\ First.kind \in NumericKinds /\ ByKind(First)
        /\ DefaultUnparsable)
    => InvalidDefaultReturned

C9_Witness ==
    /\ AfterConfigure /\ FirstNamed /\ First.kind = "uint64" /\ ByKind(First)
    /\ DefaultUnparsable
    /\ last.err.cause = ErrRange

(***************************************************************************)
(* SpecParse: the four entry points and flag.Parse on structs of one or    *)
(* two fields of the types that can be registered, with valid defaults.    *)
(***************************************************************************)
Tagged(field, name, rest) == WithTag(field, <<name>> \o rest)

One == <<",", "1", ",", "d">>

ParseFields ==
    {Tagged(Leaf(TRUE, <<>>, "string", ""), "s", <<",", "H", "i", ",", "d">>),
     Tagged(Leaf(TRUE, <<>>, "bool", ""), "t", One),
     Tagged(Leaf(TRUE, <<>>, "float64", ""), "f", <<",", ".", "1">>),
     Tagged(Leaf(TRUE, <<>>, "int", ""), "i", One),
     Tagged(Leaf(TRUE, <<>>, "int64", ""), "l", One),
     Tagged(Leaf(TRUE, <<>>, "uint", ""), "w", One),
     Tagged(Leaf(TRUE, <<>>, "uint64", ""), "v", One),
     Tagged(Leaf(TRUE, <<>>, "int64", "time.Duration"), "d", <<",", "1", "h">>),
     Tagged(PtrTo(TRUE, <<>>, "int", "", "h1"), "p", One),
     Tagged(Leaf(TRUE, <<>>, "int", "aliasInt"), "k", One),
     Tagged(Leaf(TRUE, <<>>, "int", "dummyInt"), "y", One),
     Tagged(Leaf(TRUE, <<>>, "int", "dummyInt"), "z", <<>>)}

ParseConfigs ==
    {PtrToStruct(<<f>>) : f \in ParseFields}
    \cup {PtrToStruct(<<f, g>>) : f, g \in ParseFields}
    \cup {NilConfig, PtrToStruct(<<FieldC>>)}

InitParse == InitProgram({NoFlags}) /\ NoTag /\ config \in ParseConfigs

NextParse ==
    \/ Configure(1)
    \/ MustConfigure(1)
    \/ ConfigureAndParse(1)
    \/ MustConfigureAndParse(1)
    \/ Parse

SpecParse == InitParse /\ [][NextParse]_vars

\* The variable of the i-th top-level field: the field itself, or the
\* variable a pointer field points to.
VariableOf(i) ==
    IF config.fields[i].kind = "ptr" THEN Addr(config.fields[i].target, <<>>)
    ELSE Addr(config.target, <<i>>)

\* The flag type a field's values are written in.
TypeOf(field) ==
    IF ImplementsValue(field.tname) THEN field.tname
    ELSE IF field.tname = "time.Duration" THEN "duration"
    ELSE IF field.kind = "ptr" THEN field.elem
    ELSE field.kind

\* The value a text stands for in a field.
Denotes(field, text) == ValueSet(Value(TypeOf(field), Addr("", <<>>)), text).v

\* The text the command line gives for an option.
Given(name) == \E k \in 1..Len(argv) : argv[k].name = name

GivenText(name) == argv[CHOOSE k \in 1..Len(argv) : argv[k].name = name].value

ArgumentsParsed ==
    /\ parsed /\ status = "running"
    /\ IsStructPointer(config) /\ ~IsError(last.err)

(***************************************************************************)
(* C3: after Configure has succeeded and the arguments are parsed, every   *)
(* bound field holds the value the user gave if the option was given and   *)
(* the default declared in the tag otherwise, for every registered kind:   *)
(* primitive, duration, pointer target and flag.Value implementor.         *)
(***************************************************************************)
C3_FieldsHoldValueOrDefault ==
    ArgumentsParsed =>
        \A i \in 1..Len(config.fields) :
            LET f == config.fields[i]
                t == FlagText(f)
            IN  t # <<>> =>
                  Load(mem, VariableOf(i)) =
                      IF Given(TagName(t)) THEN Denotes(f, GivenText(TagName(t)))
                      ELSE IF TagDefault(t) = <<>> /\ ImplementsValue(f.tname) THEN ZeroVal
                      ELSE Denotes(f, TagDefault(t))

(***************************************************************************)
(* SpecType: Configure on structs whose first field runs over the types a  *)
(* caller may tag (primitive kinds, named types, pointers, interfaces,     *)
(* structs, unsupported kinds), with a few defaults, with and without the  *)
(* 'flagopt' tag, followed by a string field with a valid tag.  A pointer  *)
(* that is not nil points to the variable h1, which holds zero or three.   *)
(***************************************************************************)
TypeTags ==
    {<<"n", ",", ",", "d">>, <<"n", ",", "1", ",", "d">>, <<"n", ",", "1", "h", ",", "d">>,
     <<"n", ",", "x", ",", "d">>, <<"n", ",", "-", "1", "0", ",", "d">>, <<",", "1", ",", "d">>}

SkipFlagValue == <<"s", "k", "i", "p", "F", "l", "a", "g", "V", "a", "l", "u", "e">>

\* The field with this 'flag' tag and, when opt is set, the 'flagopt' tag.
WithTags(field, t, opt) ==
    [field EXCEPT !.tags = <<Tag("flag", t)>>
                             \o (IF opt THEN <<Tag("flagopt", SkipFlagValue)>> ELSE <<>>)]

UnsupportedKinds == {"uintptr", "int32", "slice", "map"}

PlainTypes ==
    {Leaf(TRUE, <<>>, k, "") : k \in PrimitiveKinds \cup UnsupportedKinds}
    \cup {Leaf(FALSE, <<>>, k, "") : k \in {"int", "uintptr"}}

NamedTypes ==
    {Leaf(TRUE, <<>>, "int", "aliasInt"),
     Leaf(TRUE, <<>>, "string", "aliasString"),
     Leaf(TRUE, <<>>, "int64", "aliasDuration"),
     Leaf(TRUE, <<>>, "int64", "time.Duration"),
     Leaf(FALSE, <<>>, "int64", "time.Duration"),
     Leaf(TRUE, <<>>, "int", "dummyInt"),
     Leaf(FALSE, <<>>, "int", "dummyInt")}

PointerTypes ==
    {PtrTo(e, <<>>, "int", n, t) :
        e \in BOOLEAN, n \in {"", "dummyInt"}, t \in {"nil", "h1"}}
    \cup {PtrTo(TRUE, <<>>, "int64", "time.Duration", t) : t \in {"nil", "h1"}}
    \cup {PtrTo(TRUE, <<>>, "ptr", "", "h1"),
          [PtrTo(TRUE, <<>>, "struct", "", "h1") EXCEPT !.fields = Named(<<FieldB>>)]}

InterfaceTypes ==
    {Holding(TRUE, <<>>, "", ""),
     Holding(TRUE, <<>>, "*dummyInt", "nil"),
     Holding(TRUE, <<>>, "*dummyInt", "h1"),
     Holding(TRUE, <<>>, "dummyInt", ""),
     Holding(FALSE, <<>>, "*dummyInt", "h1")}

StructTypes ==
    {Struct(e, <<>>, <<FieldB>>) : e \in BOOLEAN}
    \cup {[Struct(TRUE, <<>>, <<FieldB>>) EXCEPT !.tname = "dummyStruct"]}

TypeFields == PlainTypes \cup NamedTypes \cup PointerTypes \cup InterfaceTypes \cup StructTypes

TypeConfigs ==
    {PtrToStruct(<<WithTags(f, t, opt), Follower, Untagged>>) :
        f \in TypeFields, t \in TypeTags, opt \in BOOLEAN}

\* The variable h1 holds three.
Three == (Addr("h1", <<>>) :> IntVal(3))

\* The values the caller has stored before configuring: three in h1, in the
\* untagged third field and in a first field of an integer kind.
Stored(c) ==
    Three @@ (Addr(c.target, <<3>>) :> IntVal(3))
          @@ (IF c.fields[1].kind \in {"int", "int64", "uint", "uint64"}
              THEN (Addr(c.target, <<1>>) :> IntVal(3)) ELSE NoMem)

InitType ==
    /\ formal = NoFlags
    /\ actual = {}
    /\ parsed = FALSE
    /\ argv = <<>>
    /\ config \in TypeConfigs
    /\ mem \in {NoMem, Stored(config)}
    /\ last = Last("none", NoError, "", formal, mem)
    /\ status = "running"
    /\ calls = 0
    /\ NoTag

SpecType == InitType /\ [][Next]_vars

\* The names of the options tagged on the fields inside a struct field.
InnerNames(field) == NamesOf(TaggedFields(field.fields, 0, TRUE))

\* The first field is a struct that carries a 'flag' tag with a name.
FirstIsTaggedStruct == AfterConfigure /\ FirstNamed /\ First.kind = "struct"

\* Nothing inside the struct is registered, and the call fails with the
\* unsupported-type error unless the struct type implements flag.Value.
HandledAsLeaf ==
    /\ Returned
    /\ InnerNames(First) \cap NewNames = {}
    /\ (last.err.fmt = ErrUnsupported) <=> ~ImplementsValue(First.tname)

(***************************************************************************)
(* C11: a struct-typed field that itself carries a 'flag' tag is never     *)
(* recursed into: the tagged fields inside it are not registered, and      *)
(* Configure fails with the unsupported-type error unless the struct type  *)
(* implements flag.Value.                                                  *)
(***************************************************************************)
\* The claim as it is worded: every tagged struct field.
C11_TaggedStructIsLeaf == FirstIsTaggedStruct => HandledAsLeaf

\* C11, amended: the tagged struct field is exported.
C11_ExportedTaggedStructIsLeaf == (FirstIsTaggedStruct /\ First.exported) => HandledAsLeaf

C11_Witness ==
    /\ FirstIsTaggedStruct /\ First.exported /\ ~ImplementsValue(First.tname)
    /\ InnerNames(First) = {<<"b">>}
    /\ last.err = Error(ErrUnsupported, First.name, <<"n">>, "")
    /\ formal = NoFlags

\* The name and the default of the first field's tag.
FirstName == TagName(FlagText(First))

FirstDefault == TagDefault(FlagText(First))

\* The first field is a pointer that carries a 'flag' tag with a name; when
\* it is not nil it points to a variable of a type that can be registered.
FirstIsPointer ==
    /\ AfterConfigure /\ FirstNamed /\ First.kind = "ptr"
    /\ First.elem \in PrimitiveKinds

PointsToZero == First.target # "nil" /\ Load(last.mem, Addr(First.target, <<>>)) = ZeroVal

\* The text of the zero value of the field's type.
ZeroText(field) == ValueString(Value(TypeOf(field), Addr("", <<>>)), NoMem)

NilTargetReturned ==
    /\ Returned
    /\ last.err = Error(ErrNilTarget, First.name, FirstName, "")
    /\ formal = last.formal
    /\ mem = last.mem

\* The option of the first field is registered with this default text.
FirstRegistered(text) ==
    /\ Succeeded
    /\ FirstName \in NewNames
    /\ formal[FirstName].Value.addr = VariableOf(1)
    /\ formal[FirstName].DefValue = text

(***************************************************************************)
(* C12: a tagged field whose type is a pointer and whose value is nil      *)
(* makes Configure fail with the nil-target error without registering the  *)
(* field; the same field holding a non-nil pointer to a zero value         *)
(* succeeds and registers the text of the zero value as the default.       *)
(***************************************************************************)
\* The claim as it is worded, for the pointer fields reflection may set:
\* whatever the pointer points to, the zero value's text is the default.
C12_NilPointerRejectedZeroRegistered ==
    FirstIsPointer =>
        /\ First.target = "nil" => NilTargetReturned
        /\ (PointsToZero /\ First.exported) => FirstRegistered(ZeroText(First))

\* The default as registerFlagByPrimitive parses it for the pointer's target.
TargetDefault ==
    IF First.tname = "time.Duration" THEN ParseDuration(FirstDefault)
    ELSE ParseDefault(First.elem, FirstDefault)

\* C12, amended: the zero value's text is the default of an exported pointer
\* to a flag.Value; an exported pointer to a primitive kind or a duration
\* takes the default of its tag, which must parse.
C12_NilPointerRejectedValueRegistered ==
    FirstIsPointer =>
        /\ First.target = "nil" => NilTargetReturned
        /\ (PointsToZero /\ First.exported /\ ImplementsValue(First.tname))
           => FirstRegistered(ZeroText(First))
        /\ (First.target # "nil" /\ First.exported /\ ~ImplementsValue(First.tname))
           => IF TargetDefault.err = ""
              THEN FirstRegistered(ValueString(Value(TypeOf(First), Addr("d", <<>>)),
                                               Store(NoMem, Addr("d", <<>>), TargetDefault.v)))
              ELSE /\ Returned
                   /\ last.err = Error(ErrInvalidDefault, First.name, FirstName, TargetDefault.err)

C12_Witness ==
    /\ FirstIsPointer /\ PointsToZero /\ First.exported /\ First.tname = "dummyInt"
    /\ FirstDefault = <<"1">>
    /\ FirstRegistered(<<"0">>)

\* The first field is an exported interface{} field with a named 'flag' tag.
FirstIsInterface ==
    AfterConfigure /\ FirstNamed /\ First.kind = "interface" /\ First.exported

(***************************************************************************)
(* C13: a tagged field of interface type that holds a non-nil pointer to a *)
(* flag.Value implementor is registered: Configure returns no error and    *)
(* the registry holds an option with the tag's name and description whose  *)
(* default text is the String() of the value the interface holds.          *)
(***************************************************************************)
C13_ValueThroughInterfaceRegistered ==
    (FirstIsInterface /\ First.elem = "*dummyInt" /\ First.target # "nil")
    => /\ Succeeded
       /\ FirstName \in NewNames
       /\ formal[FirstName].Usage = TagUsage(FlagText(First))
       /\ formal[FirstName].DefValue =
              FormatInt(Load(last.mem, Addr(First.target, <<>>)).n)

\* The errors of configure that report something other than a nil value.
OtherCauses == {ErrFlagName, ErrUnexported, ErrInvalidDefault, ErrUnsupported}

(***************************************************************************)
(* C14: a tagged field of interface type makes Configure fail with a       *)
(* nil-interface error when the interface is nil, and with a               *)
(* nil-interface-value error when it holds a pointer that is nil; no       *)
(* option is registered for the field.                                     *)
(***************************************************************************)
C14_NilInterfaceRejected ==
    (FirstIsInterface /\ (First.elem = "" \/ First.target = "nil"))
    => /\ Returned
       /\ IsError(last.err) /\ last.err.fmt \notin OtherCauses
       /\ formal = last.formal

(***************************************************************************)
(* C15: Configure fails with the unaddressable-field error, registering    *)
(* nothing for the field, whenever a tagged field cannot be mutated in     *)
(* place after indirection: an unexported tagged field, and an interface   *)
(* field that holds a non-pointer value.                                   *)
(***************************************************************************)
\* The field, its pointer followed, is not a variable that can be set.
CannotBeMutated(field) ==
    \/ ~field.exported /\ field.kind # "interface" /\ field.target # "nil"
    \/ field.kind = "interface" /\ field.elem = "dummyInt"

C15_UnaddressableRejected ==
    (AfterConfigure /\ FirstNamed /\ CannotBeMutated(First))
    => /\ Returned
       /\ last.err = Error(ErrUnexported, First.name, FirstName, "")
       /\ formal = last.formal

\* The field carries the 'flagopt' tag with the option skipFlagValue.
HasSkipFlagValue(field) == TagGet(field.tags, "flagopt") = SkipFlagValue

\* The first field is exported, not a nil pointer, and its type (or the type
\* its pointer points to) implements flag.Value.
FirstIsValue ==
    /\ AfterConfigure /\ FirstNamed /\ First.exported
    /\ First.kind \in PrimitiveKinds \cup {"ptr"}
    /\ First.target # "nil"
    /\ ImplementsValue(First.tname)

\* The kind of the first field, its pointer followed.
FirstKind == IF First.kind = "ptr" THEN First.elem ELSE First.kind

(***************************************************************************)
(* C16: when the 'flagopt' tag of a field contains skipFlagValue, the      *)
(* field is registered by its primitive kind even if its type implements   *)
(* flag.Value; without that option such a type is registered as a          *)
(* flag.Value.                                                             *)
(***************************************************************************)
C16_SkipFlagValueRegistersByKind ==
    FirstIsValue =>
        IF HasSkipFlagValue(First)
        THEN IF ParseDefault(FirstKind, FirstDefault).err = ""
             THEN /\ Succeeded
                  /\ FirstName \in NewNames
                  /\ formal[FirstName].Value.type = FirstKind
             ELSE Returned /\ last.err.fmt = ErrInvalidDefault
        ELSE /\ Succeeded
             /\ FirstName \in NewNames
             /\ formal[FirstName].Value.type = First.tname

\* What Set of the field's type makes of the tag's default.
SetDefault == ValueSet(Value(First.tname, VariableOf(1)), FirstDefault)

(***************************************************************************)
(* C17: for a field registered as a flag.Value with a non-empty default in *)
(* its tag, Set is called with the default at registration, before any Set *)
(* a command line argument causes: after Configure the variable holds what *)
(* Set makes of the default; with an empty default Set is not called and   *)
(* the variable is as it was.                                              *)
(***************************************************************************)
C17_ValuePrimedWithDefault ==
    (FirstIsValue /\ ~HasSkipFlagValue(First) /\ Succeeded)
    => Load(mem, VariableOf(1)) =
          IF FirstDefault # <<>> /\ SetDefault.err = "" THEN SetDefault.v
          ELSE Load(last.mem, VariableOf(1))

\* The first field is of a named type derived from a primitive kind that does
\* not implement flag.Value.
FirstIsDerived ==
    /\ AfterConfigure /\ FirstNamed
    /\ First.kind \in PrimitiveKinds
    /\ First.tname \notin {"", "time.Duration"}
    /\ ~ImplementsValue(First.tname)

\* The struct with the first field declared with the kind's own type.
Underlying == [config EXCEPT !.fields[1].tname = ""]

(***************************************************************************)
(* C18: a tagged field whose type is a named type derived from a supported *)
(* primitive kind and does not implement flag.Value is registered exactly  *)
(* as the primitive would be: the same defaults are accepted, and the      *)
(* registry, the variables and the returned error are the same.            *)
(***************************************************************************)
C18_DerivedTypeAsPrimitive ==
    FirstIsDerived =>
        /\ Returned
        /\ formal = ConfigureOutcome(Underlying, last.formal, last.mem).formal
        /\ mem = ConfigureOutcome(Underlying, last.formal, last.mem).mem
        /\ last.err = ConfigureOutcome(Underlying, last.formal, last.mem).err

C18_Witness ==
    /\ FirstIsDerived /\ First.tname = "aliasInt" /\ FirstDefault = <<"1">>
    /\ FirstRegistered(<<"1">>)
    /\ formal[FirstName].Value.type = "int"
    /\ Load(mem, VariableOf(1)) = IntVal(1)

\* The first field's type, its pointer followed, is exactly time.Duration.
FirstIsDuration ==
    /\ AfterConfigure /\ FirstNamed
    /\ First.tname = "time.Duration" /\ First.target # "nil"

\* Registered as a duration when the default is a duration literal, the
\* invalid-default error otherwise.
RegisteredAsDuration ==
    IF ParseDuration(FirstDefault).err = ""
    THEN /\ FirstRegistered(FormatDuration(ParseDuration(FirstDefault).v))
         /\ formal[FirstName].Value.type = "duration"
         /\ Load(mem, VariableOf(1)) = ParseDuration(FirstDefault).v
    ELSE /\ Returned
         /\ last.err = Error(ErrInvalidDefault, First.name, FirstName,
                             ParseDuration(FirstDefault).err)
         /\ formal = last.formal

(***************************************************************************)
(* C19: a field whose resolved type is exactly time.Duration is registered *)
(* as a duration option before the kind switch is consulted: its default   *)
(* is parsed by the duration grammar and not as an int64 literal, so "1h"  *)
(* succeeds with the default text "1h0m0s", and a default that is no       *)
(* duration literal fails with the invalid-default error.                  *)
(***************************************************************************)
\* The claim as it is worded: every field of that type.
C19_DurationBeforeKind == FirstIsDuration => RegisteredAsDuration

\* C19, amended: the field is exported.
C19_ExportedDurationBeforeKind == (FirstIsDuration /\ First.exported) => RegisteredAsDuration

C19_Witness ==
    /\ FirstIsDuration /\ First.exported /\ FirstDefault = <<"1", "h">>
    /\ FirstRegistered(<<"1", "h", "0", "m", "0", "s">>)
    /\ formal[FirstName].Value.type = "duration"

\* The first field's resolved type is no flag.Value and its kind is not one
\* of string, bool, float64, int, int64, uint, uint64 or duration.
FirstIsUnsupported ==
    /\ AfterConfigure /\ FirstNamed
    /\ First.kind # "interface" /\ First.target # "nil"
    /\ ~ImplementsValue(First.tname)
    /\ First.tname # "time.Duration"
    /\ FirstKind \notin PrimitiveKinds

UnsupportedReturned ==
    /\ Returned
    /\ last.err = Error(ErrUnsupported, First.name, FirstName, "")
    /\ formal = last.formal
    /\ mem = last.mem

(***************************************************************************)
(* C20: Configure fails with the unsupported-type error, registering       *)
(* nothing for the field, for every tagged field whose resolved type does  *)
(* not implement flag.Value and whose kind is not one of string, bool,     *)
(* float64, int, int64, uint, uint64 or duration.                          *)
(***************************************************************************)
\* The claim as it is worded: every such field.
C20_UnsupportedKindRejected == FirstIsUnsupported => UnsupportedReturned

\* C20, amended: the field is exported.
C20_ExportedUnsupportedKindRejected ==
    (FirstIsUnsupported /\ First.exported) => UnsupportedReturned

C20_Witness ==
    /\ FirstIsUnsupported /\ First.exported /\ First.kind = "int32"
    /\ FirstDefault = <<"1">>
    /\ UnsupportedReturned

\* The first field reaches registerFlagByPrimitive with a supported type: it
\* is named and settable, a pointer is not nil, and its type is no flag.Value.
FirstByPrimitive ==
    /\ AfterConfigure /\ FirstNamed /\ First.exported
    /\ First.kind \in PrimitiveKinds \cup {"ptr"}
    /\ FirstKind \in PrimitiveKinds
    /\ First.target # "nil"
    /\ ~ImplementsValue(First.tname)

(***************************************************************************)
(* C21: an empty default in the tag is accepted for a field registered as  *)
(* a string, whose option then has the empty string as default; for a      *)
(* field registered as bool, float64, int, int64, uint, uint64 or duration *)
(* Configure returns the invalid-default error and registers nothing.      *)
(***************************************************************************)
C21_EmptyDefaultOnlyForString ==
    (FirstByPrimitive /\ FirstDefault = <<>>)
    => IF FirstKind = "string"
       THEN /\ FirstRegistered(<<>>)
            /\ formal[FirstName].Value.type = "string"
            /\ Load(mem, VariableOf(1)) = StrVal(<<>>)
       ELSE /\ InvalidDefaultReturned
            /\ last.err.cause # ""

C21_Witness ==
    /\ FirstByPrimitive /\ FirstDefault = <<>>
    /\ FirstKind = "string"
    /\ FirstRegistered(<<>>)

\* The state after a call that has configured with outcome out and has not
\* called the parser.
NotParsedAfter(out) ==
    /\ ~parsed /\ argv = <<>> /\ actual = {}
    /\ formal = out.formal /\ mem = out.mem
    /\ last.err = out.err

\* The state after a call that has configured with outcome out, every tagged
\* field registered, and has then read the command line once.
ParsedOnceAfter(out, ps) ==
    /\ parsed
    /\ ~IsError(last.err) /\ last.panic = ""
    /\ formal = out.formal
    /\ NamesOf(Reachable) \subseteq DOMAIN formal
    /\ mem = ps.mem /\ actual = ps.actual
    /\ status = IF ps.exit THEN "exited" ELSE "running"

AndParseAfter(out) ==
    IF Stopped(out) THEN NotParsedAfter(out) /\ last.panic = out.panic
    ELSE ParsedOnceAfter(out, FlagParse(argv, out.formal, out.mem, {}))

(***************************************************************************)
(* C22: ConfigureAndParse calls the parser once, after every tagged field  *)
(* is registered, when Configure succeeds; when Configure fails it returns *)
(* Configure's error and does not call the parser.  Configure and          *)
(* MustConfigure do not call the parser: flag.Parsed() stays false and no  *)
(* option is set from the command line.                                    *)
(***************************************************************************)
C22_ParsesOnlyAfterConfigured ==
    /\ last.op = "ConfigureAndParse"
           => AndParseAfter(ConfigureOutcome(config, last.formal, last.mem))
    /\ last.op \in {"Configure", "MustConfigure"}
           => NotParsedAfter(ConfigureOutcome(config, last.formal, last.mem))

\* Both fields of a struct are registered and the command line, read after
\* that, has set one of them.
C22_Witness ==
    /\ last.op = "ConfigureAndParse"
    /\ parsed /\ Len(config.fields) = 2 /\ Cardinality(DOMAIN formal) = 2
    /\ actual # {}

\* A Must entry point has panicked exactly when 'fails' holds of the
\* non-Must call on the same argument; otherwise its effect is that call's.
MustAfter(out, fails) ==
    /\ last.panic # "" <=> fails
    /\ status = "panicked" <=> fails
    /\ ~fails => IF last.op = "MustConfigure" THEN NotParsedAfter(out)
                 ELSE ParsedOnceAfter(out, FlagParse(argv, out.formal, out.mem, {}))

AfterMust == last.op \in {"MustConfigure", "MustConfigureAndParse"}

MustPanicsOnError(out) == MustAfter(out, IsError(out.err))

MustPanicsWhenStopped(out) == MustAfter(out, Stopped(out))

(***************************************************************************)
(* C23: MustConfigure panics exactly when Configure would return an error  *)
(* on the same argument, MustConfigureAndParse exactly when                *)
(* ConfigureAndParse would; when they do not panic, the registry,          *)
(* variables and parsed state are those the non-Must call leaves.          *)
(***************************************************************************)
C23_MustPanicsIffErrorReturned ==
    AfterMust => MustPanicsOnError(ConfigureOutcome(config, last.formal, last.mem))

\* C23, amended: the Must entry points panic exactly when the non-Must call
\* would return an error or would itself panic, as flag.Var does when Configure
\* registers a name a second time.
C23_MustPanicsIffStopped ==
    AfterMust => MustPanicsWhenStopped(ConfigureOutcome(config, last.formal, last.mem))

C23_Witness ==
    /\ last.op = "MustConfigure"
    /\ IsError(last.err) /\ last.panic = "panic(err)"
    /\ status = "panicked"

(***************************************************************************)
(* SpecCalls: a program that calls Configure twice before parsing, on the  *)
(* same struct or on a second struct with variables of its own.            *)
(***************************************************************************)
\* Fields of a struct whose pointer field points to the variable 'heap'.
CallFields(heap) ==
    {Tagged(Leaf(TRUE, <<>>, "string", ""), "s", <<",", "H", "i", ",", "d">>),
     Tagged(Leaf(TRUE, <<>>, "string", ""), "a", One),
     Tagged(Leaf(TRUE, <<>>, "int", ""), "i", One),
     Tagged(PtrTo(TRUE, <<>>, "int", "", heap), "p", One),
     Tagged(Leaf(TRUE, <<>>, "int", "dummyInt"), "y", <<>>),
     FieldC}

CallRecords(obj, heap) ==
    {Config("ptr", obj, "struct", Named(<<f>>)) : f \in CallFields(heap)}
    \cup {Config("ptr", obj, "struct", Named(<<f, g>>)) : f, g \in CallFields(heap)}

\* Configure called on a second struct.
ConfigureSecond(limit) ==
    /\ status = "running" /\ calls > 0 /\ calls < limit
    /\ \E c \in CallRecords("cfg2", "h2") :
           /\ config' = c
           /\ Configured("Configure", FALSE, ConfigureOutcome(c, formal, mem))
    /\ UNCHANGED <<actual, parsed, argv, raw, tag>>

InitCalls ==
    /\ InitProgram({NoFlags, OwnFlag}) /\ NoTag
    /\ config \in CallRecords("cfg", "h1")

NextCalls == Configure(2) \/ ConfigureSecond(2)

SpecCalls == InitCalls /\ [][NextCalls]_vars

\* The variables of the options of the registry before the call hold what
\* they held.
OldVariablesKept ==
    \A n \in DOMAIN last.formal :
        Load(mem, last.formal[n].Value.addr) = Load(last.mem, last.formal[n].Value.addr)

(***************************************************************************)
(* C24: Configure may be called several times before parsing on structs    *)
(* whose option names differ: each successful call adds the options of its *)
(* struct to the registry and leaves every option registered before it,    *)
(* its variable included, as it was.                                       *)
(***************************************************************************)
C24_LaterCallKeepsEarlierOptions ==
    (Succeeded /\ IsStructPointer(config))
    => /\ OldFlagsKept
       /\ OldVariablesKept
       /\ DOMAIN formal = DOMAIN last.formal \cup NamesOf(Reachable)
       /\ DOMAIN last.formal \cap NamesOf(Reachable) = {}

\* The second call has succeeded on a second struct after the first call has
\* registered the options of the first.
C24_Witness ==
    /\ Succeeded /\ calls = 2 /\ config.target = "cfg2"
    /\ Cardinality(DOMAIN last.formal) >= 2
    /\ Cardinality(NewNames) = 2

\* The option name of the i-th field of the struct.
NameAt(i) == TagName(FlagText(config.fields[i]))

\* The i-th field names an option that is in the registry before the call or
\* that an earlier field of the struct names too.
CollidesAt(i) ==
    \/ NameAt(i) \in DOMAIN last.formal
    \/ \E j \in 1..(i - 1) : NameAt(j) = NameAt(i)

Collides == IsStructPointer(config) /\ \E i \in 1..Len(config.fields) : CollidesAt(i)

FirstColliding == CHOOSE i \in 1..Len(config.fields) :
                      CollidesAt(i) /\ \A j \in 1..(i - 1) : ~CollidesAt(j)

\* Configure on the fields before the i-th.
Before(i) ==
    ConfigureOutcome([config EXCEPT !.fields = SubSeq(@, 1, i - 1)], last.formal, last.mem)

\* The call has stopped where 'before', the outcome of the fields before the
\* colliding one, stops, or else at the colliding field: the flag package
\* panics, or the field's own error is returned.
StoppedAtCollision(before, field) ==
    /\ ~Succeeded
    /\ formal = before.formal
    /\ IF Stopped(before) THEN last.err = before.err /\ last.panic = before.panic
       ELSE \/ last.panic = "flag redefined"
            \/ IsError(last.err) /\ last.err.field = field.name /\ last.panic = ""

(***************************************************************************)
(* C25: Configure is not idempotent.  A call on a struct with an option    *)
(* name that is already in the registry (the same struct configured twice) *)
(* or that two of its fields share fails or panics at the first colliding  *)
(* name: the fields before it are registered, the colliding name keeps the  *)
(* option it was bound to, and no later field is registered.               *)
(***************************************************************************)
C25_CollisionStopsConfigure ==
    (AfterConfigure /\ Collides)
    => /\ StoppedAtCollision(Before(FirstColliding), config.fields[FirstColliding])
       /\ OldFlagsKept

\* The same struct configured a second time: the flag package panics and the
\* registry is the one the first call left.
C25_Witness ==
    /\ AfterConfigure /\ calls = 2 /\ config.target = "cfg"
    /\ Collides
    /\ last.panic = "flag redefined"
    /\ formal = last.formal /\ Cardinality(DOMAIN formal) >= 2

\* The first field reaches the flag.Value test with a type that implements
\* flag.Value: it is named and settable, and a pointer is not nil.
FirstReachesValueTest ==
    /\ AfterConfigure /\ FirstNamed /\ First.exported
    /\ First.target # "nil"
    /\ ImplementsValue(First.tname)
    /\ ~HasSkipFlagValue(First)

\* The first field is registered as the flag.Value its address is; the
\* default text is what String() gives for the value the variable held, and
\* the variable is not written.
RegisteredAsValue ==
    /\ FirstRegistered(ValueString(Value(First.tname, VariableOf(1)), last.mem))
    /\ formal[FirstName].Value.type = First.tname
    /\ Load(mem, VariableOf(1)) = Load(last.mem, VariableOf(1))

\* Configure on the struct with the first field declared with the kind's own
\* type returns the invalid-default error when the default is empty.
PlainWouldFail(plain) ==
    (FirstKind \in NumericKinds /\ FirstDefault = <<>>)
    => plain.err.fmt = ErrInvalidDefault /\ plain.formal = last.formal

(***************************************************************************)
(* C26: within a tagged field the flag.Value test comes before the         *)
(* registration by primitive kind and is final: a type that implements     *)
(* flag.Value is registered as a flag.Value whatever the default in the    *)
(* tag, with the text of String() as default text ("0" for a zero value of *)
(* a type of kind int), and no default is parsed by kind, where the same   *)
(* field of the plain kind fails on an empty default.                      *)
(***************************************************************************)
C26_ValueTestBeforePrimitive ==
    /\ FirstReachesValueTest
           => /\ RegisteredAsValue
              /\ PlainWouldFail(ConfigureOutcome(Underlying, last.formal, last.mem))
    /\ (AfterConfigure /\ FirstNamed /\ ImplementsValue(First.tname))
           => last.err.fmt \notin {ErrInvalidDefault, ErrUnsupported}

C26_Witness ==
    /\ FirstReachesValueTest
    /\ First.kind = "int" /\ FirstDefault = <<>>
    /\ Succeeded
    /\ formal[FirstName].DefValue = <<"0">>

\* The i-th field of the struct is registered by its primitive kind.
ByPrimitiveAt(i) ==
    LET f == config.fields[i]
    IN  /\ FlagText(f) # <<>>
        /\ ~ImplementsValue(f.tname)
        /\ (IF f.kind = "ptr" THEN f.elem ELSE f.kind) \in PrimitiveKinds

\* The default the tag of a field declares, parsed for the field's type.
TagDefaultOf(f) ==
    IF f.tname = "time.Duration" THEN ParseDuration(TagDefault(FlagText(f))).v
    ELSE ParseDefault(IF f.kind = "ptr" THEN f.elem ELSE f.kind, TagDefault(FlagText(f))).v

(***************************************************************************)
(* C27: directly after a successful Configure, before the command line is  *)
(* parsed, every field registered by primitive kind, the target of a       *)
(* non-nil pointer field included, holds the default of its tag whatever   *)
(* it held before; a field without a tag holds what it held.               *)
(***************************************************************************)
C27_DefaultsStoredAtRegistration ==
    (Succeeded /\ IsStructPointer(config))
    => \A i \in 1..Len(config.fields) :
           IF ByPrimitiveAt(i)
           THEN Load(mem, VariableOf(i)) = TagDefaultOf(config.fields[i])
           ELSE FlagText(config.fields[i]) = <<>>
                    => Load(mem, VariableOf(i)) = Load(last.mem, VariableOf(i))

\* The caller had stored three in the first field, or in the variable it
\* points to, and in the untagged field; the first now holds the default one.
C27_Witness ==
    /\ Succeeded /\ FirstNamed /\ ByPrimitiveAt(1)
    /\ Load(last.mem, VariableOf(1)) = IntVal(3)
    /\ Load(mem, VariableOf(1)) = IntVal(1)
    /\ Load(mem, VariableOf(3)) = IntVal(3)

\* The i-th tagged field the walk reaches is an exported field with an option
\* name that lies inside an unexported struct field.
Hidden(i) ==
    /\ Reachable[i].depth > 0
    /\ Reachable[i].field.exported /\ ~Reachable[i].exported
    /\ TagName(FlagText(Reachable[i].field)) # <<>>
    /\ Reachable[i].field.target # "nil"

\* Configure has returned the unexported-or-unaddressable error for this
\* field and has registered nothing.
UnexportedReturned(field) ==
    /\ Returned
    /\ last.err = Error(ErrUnexported, field.name, TagName(FlagText(field)), "")
    /\ formal = last.formal
    /\ mem = last.mem

RECURSIVE Written(_, _)
Written(digits, base) ==
    IF digits = <<>> THEN 0
    ELSE Written(Take(digits, Len(digits) - 1), base) * base + DigitVal(digits[Len(digits)])

\* The digits of an unsigned literal and the base its prefix selects: 0x, 0b
\* and 0o, a leading 0 for octal, decimal otherwise.
Digits(body) ==
    IF Len(body) >= 3 /\ body[1] = "0" /\ Lower(body[2]) \in {"x", "b", "o"}
    THEN [base |-> CASE Lower(body[2]) = "x" -> 16 [] Lower(body[2]) = "b" -> 2 [] OTHER -> 8,
          digits |-> Drop(body, 2)]
    ELSE IF Len(body) >= 2 /\ body[1] = "0" THEN [base |-> 8, digits |-> Drop(body, 1)]
    ELSE [base |-> 10, digits |-> body]

\* An integer literal: whether it is well-formed, its sign and its value.
Literal(neg, d) ==
    [ok |-> d.digits # <<>> /\ \A k \in 1..Len(d.digits) : DigitVal(d.digits[k]) < d.base,
     neg |-> neg,
     v |-> IF neg THEN 0 - Written(d.digits, d.base) ELSE Written(d.digits, d.base)]

IntLiteral(s) ==
    IF s # <<>> /\ s[1] = "-" THEN Literal(TRUE, Digits(Tail(s))) ELSE Literal(FALSE, Digits(s))

IntegerKinds == {"int", "int64", "uint", "uint64"}

\* The literal is one of a value the kind of the first field can hold.
InRange(kind, lit) ==
    /\ lit.ok
    /\ IF kind \in {"uint", "uint64"}
       THEN ~lit.neg /\ lit.v <= Pow(2, Bits(kind)) - 1
       ELSE lit.v >= 0 - Pow(2, Bits(kind) - 1) /\ lit.v <= Pow(2, Bits(kind) - 1) - 1

RegisteredOrRejected(lit) ==
    IF InRange(FirstKind, lit)
    THEN /\ FirstRegistered(FormatInt(lit.v))
         /\ Load(mem, VariableOf(1)) = IntVal(lit.v)
    ELSE InvalidDefaultReturned

(***************************************************************************)
(* C29: the default of an int, int64, uint or uint64 field is read as a    *)
(* literal whose prefix selects the base, at the width of the field's      *)
(* kind: a literal out of the kind's range is rejected with the            *)
(* invalid-default error and never wrapped or truncated, a literal with a  *)
(* minus sign is rejected for uint and uint64, and an accepted literal in  *)
(* another base registers its value, written in decimal, as the default.   *)
(***************************************************************************)
C29_IntegerDefaultByBaseAndWidth ==
    (FirstByPrimitive /\ FirstKind \in IntegerKinds /\ First.tname # "time.Duration")
    => RegisteredOrRejected(IntLiteral(FirstDefault))

\* The octal literal 011 is registered as 9 for a uint field.
C29_Witness ==
    /\ FirstByPrimitive /\ FirstKind = "uint"
    /\ FirstDefault = <<"0", "1", "1">>
    /\ FirstRegistered(<<"9">>)
    /\ Load(mem, VariableOf(1)) = IntVal(9)

\* The fields of a struct in the order of declaration, each followed by the
\* fields of the struct it holds by value when it has no 'flag' tag.
RECURSIVE WalkOrder(_, _, _)
WalkOrder(fields, path, i) ==
    IF i > Len(fields) THEN <<>>
    ELSE <<Append(path, i)>>
         \o (IF fields[i].kind = "struct" /\ FlagText(fields[i]) = <<>>
             THEN WalkOrder(fields[i].fields, Append(path, i), 1) ELSE <<>>)
         \o WalkOrder(fields, path, i + 1)

\* The fields the call has taken up, in order.
Walk == ConfigureOutcome(config, last.formal, last.mem).visited

\* The walk v is a beginning of the order w without a repetition, all of it
\* when the call has succeeded and ending at a field when it has not.
WalkedOnce(v, w) ==
    /\ Len(v) <= Len(w)
    /\ v = SubSeq(w, 1, Len(v))
    /\ \A j, k \in 1..Len(v) : v[j] = v[k] => j = k
    /\ Succeeded => v = w
    /\ ~Succeeded => v # <<>>

(***************************************************************************)
(* C30: Configure terminates for every struct: the walk takes up each      *)
(* field of each struct reachable through untagged fields that hold a      *)
(* struct by value once, in order, does not follow an untagged pointer or  *)
(* interface field, and ends after the last field or at the first field    *)
(* that fails.                                                             *)
(***************************************************************************)
C30_WalkVisitsEachFieldOnce ==
    (AfterConfigure /\ IsStructPointer(config))
    => WalkedOnce(Walk, WalkOrder(config.fields, <<>>, 1))

\* A walk of four fields through nested structs that ended with success.
C30_Witness ==
    /\ Succeeded /\ IsStructPointer(config)
    /\ Len(Walk) = 4
    /\ \E k \in 1..Len(Walk) : Len(Walk[k]) = 3

====
